---- MODULE Spec2Model ----
(***************************************************************************)
(* One-Step-Uploader: the local-first paste/drop workflow                  *)
(* (PasteHandler), the local store (LocalRepository), the remote store     *)
(* (MediaRepository over R2Adapter) and the link rewriter                  *)
(* (LinkReplaceProcessor over StringUtils.createLinkPattern).              *)
(*                                                                         *)
(* Text (file names, paths, URLs, the document) is a sequence of           *)
(* one-character strings, so that the regular expressions of the source    *)
(* are modelled by what they match, character by character.  A few fixed   *)
(* literals of the source made of ordinary word characters only            *)
(* ("attachments", "image", "bin") are kept as one element.                *)
(***************************************************************************)
EXTENDS Integers, Sequences, FiniteSets, TLC

VARIABLES
  files,     \* vault adapter: path -> content of every existing file
  folders,   \* vault: set of existing folder paths
  host,      \* vault config "attachmentFolderPath" and the view's file
  doc,       \* editor: the document text (editor.getValue())
  cursor,    \* editor: the cursor, <<line, ch>> (0-based, editor.getCursor())
  settings,  \* SettingsManager.settings (the fields the workflow reads)
  adapter,   \* R2Adapter: [client, bucket]
  remote,    \* the bucket: key -> content of every stored object
  clock,     \* last value returned by Date.now(), 0 before the first reading
  batch,     \* PasteHandler.handle: fileArray
  idx,       \* PasteHandler.handle: index of the item being processed
  pc,        \* position of the running workflow (the await it is suspended at)
  loc,       \* locals of the running workflow
  log,       \* steps of the running item's workflow, in order: <<item, event>>
  sv,        \* locals of the running LocalRepository.save call
  rw         \* a LinkReplaceProcessor.process call: arguments and result

vaultVars  == <<files, folders, host>>
editorVars == <<doc, cursor>>
cfgVars    == <<settings, adapter>>
wfVars     == <<batch, idx, pc, loc, log, clock, remote>>
vars       == <<files, folders, host, doc, cursor, settings, adapter, remote, clock,
                batch, idx, pc, loc, log, sv, rw>>

----------------------------------------------------------------------------
\* Bounds

MaxBatch    == 2   \* items in one paste/drop batch
MaxClock    == 2   \* distinct values of Date.now()
MaxExisting == 3   \* collision candidates that may pre-exist in the vault
MaxSegments == 3   \* segments of the documents handed to the link rewriter

----------------------------------------------------------------------------
\* Text helpers

Min(S) == CHOOSE x \in S : \A y \in S : x <= y
Max(S) == CHOOSE x \in S : \A y \in S : x >= y

RECURSIVE Concat(_)
Concat(ss) == IF ss = <<>> THEN <<>> ELSE Head(ss) \o Concat(Tail(ss))

Digit(n) ==
  CASE n = 0 -> "0" [] n = 1 -> "1" [] n = 2 -> "2" [] n = 3 -> "3"
    [] n = 4 -> "4" [] n = 5 -> "5" [] n = 6 -> "6" [] n = 7 -> "7"
    [] n = 8 -> "8" [] n = 9 -> "9"

\* `${n}` for a non-negative integer
RECURSIVE NumToStr(_)
NumToStr(n) == IF n < 10 THEN <<Digit(n)>>
               ELSE NumToStr(n \div 10) \o <<Digit(n % 10)>>

\* s.substring(i-1), 1-based
From(s, i) == SubSeq(s, i, Len(s))

\* does p occur in s at position i (1-based)
OccursAt(s, p, i) ==
  /\ i >= 1
  /\ i + Len(p) - 1 <= Len(s)
  /\ \A k \in 1..Len(p) : s[i + k - 1] = p[k]

\* the position of the last "." of a name, 0 when it has none
LastDot(name) == Max({0} \cup {i \in 1..Len(name) : name[i] = "."})

----------------------------------------------------------------------------
\* LocalRepository

NoFile == [isNull |-> TRUE, hasParent |-> FALSE, parentPath |-> <<>>]

\* LocalRepository.getAttachmentFolder(currentFile)
getAttachmentFolder(cfg, currentFile) ==
  LET attachmentFolderPath == IF cfg = <<>> THEN <<".">> ELSE cfg IN
  IF currentFile.isNull
  THEN IF attachmentFolderPath = <<".">> THEN <<"attachments">>
       ELSE attachmentFolderPath
  ELSE IF attachmentFolderPath = <<".", "/">>
  THEN IF currentFile.hasParent THEN currentFile.parentPath ELSE <<>>
  ELSE IF OccursAt(attachmentFolderPath, <<".", "/">>, 1)
  THEN LET relativePath == From(attachmentFolderPath, 3) IN
       IF currentFile.hasParent
       THEN currentFile.parentPath \o <<"/">> \o relativePath
       ELSE relativePath
  ELSE attachmentFolderPath

\* fileName.match(/\.([^/.]+)$/): position of the "." the match starts at, 0
\* when there is no match
ExtMatch(fileName) ==
  LET starts == {i \in 1..Len(fileName) :
                   /\ fileName[i] = "."
                   /\ i < Len(fileName)
                   /\ \A j \in (i+1)..Len(fileName) :
                        fileName[j] \notin {"/", "."}} IN
  IF starts = {} THEN 0 ELSE Min(starts)

\* the candidate the loop body of save computes for a counter value
MutNextCandidate(attachmentFolder, fileName, counter) ==
  attachmentFolder \o <<"/">> \o fileName \o <<"_">> \o NumToStr(counter)

NextCandidate(attachmentFolder, fileName, counter) ==
  LET m        == ExtMatch(fileName)
      baseName == IF m = 0 THEN fileName ELSE SubSeq(fileName, 1, m - 1)
      ext      == IF m = 0 THEN <<>> ELSE From(fileName, m + 1) IN
  attachmentFolder \o <<"/">> \o baseName \o <<"_">> \o NumToStr(counter)
    \o (IF ext # <<>> THEN <<".">> \o ext ELSE <<>>)

SvIdle == [st |-> "idle", dir |-> <<>>, fileName |-> <<>>, finalPath |-> <<>>,
           counter |-> 0, content |-> 0, before |-> <<>>]

\* the call localRepo.save(arrayBuffer, fileName, currentFile), up to its
\* first await
SaveCall(fileName, content) ==
  [st |-> "ensure", dir |-> getAttachmentFolder(host.cfg, host.file),
   fileName |-> fileName, finalPath |-> <<>>, counter |-> 0,
   content |-> content, before |-> files]

\* the loop has been entered: fullPath is the first candidate
SaveEnterLoop ==
  [sv EXCEPT !.st = "check",
             !.finalPath = sv.dir \o <<"/">> \o sv.fileName,
             !.counter = 1]

\* ensureFolderExists: nothing to do, or adapter.exists(folderPath)
SaveEnsure ==
  /\ sv.st = "ensure"
  /\ \/ /\ sv.dir = <<>> \/ sv.dir = <<".">>
        /\ sv' = SaveEnterLoop
     \/ /\ ~(sv.dir = <<>> \/ sv.dir = <<".">>)
        /\ sv.dir \in folders
        /\ sv' = SaveEnterLoop
     \/ /\ ~(sv.dir = <<>> \/ sv.dir = <<".">>)
        /\ sv.dir \notin folders
        /\ sv' = [sv EXCEPT !.st = "mkdir"]
     \/ /\ ~(sv.dir = <<>> \/ sv.dir = <<".">>)
        /\ sv' = [sv EXCEPT !.st = "threw"]        \* adapter.exists throws
  /\ UNCHANGED <<files, folders, host, editorVars, cfgVars, wfVars, rw>>

\* ensureFolderExists: vault.createFolder(folderPath)
SaveMkdir ==
  /\ sv.st = "mkdir"
  /\ \/ /\ folders' = folders \cup {sv.dir}
        /\ sv' = SaveEnterLoop
     \/ /\ sv' = [sv EXCEPT !.st = "threw"]        \* createFolder throws
        /\ UNCHANGED folders
  /\ UNCHANGED <<files, host, editorVars, cfgVars, wfVars, rw>>

MutSaveCheckFree == TRUE

SaveCheckFree == sv.finalPath \notin DOMAIN files

\* one evaluation of the loop condition adapter.exists(finalPath)
SaveCheck ==
  /\ sv.st = "check"
  /\ \/ /\ ~SaveCheckFree
        /\ sv' = [sv EXCEPT
                    !.finalPath = NextCandidate(sv.dir, sv.fileName, sv.counter),
                    !.counter = sv.counter + 1]
     \/ /\ SaveCheckFree
        /\ sv' = [sv EXCEPT !.st = "write"]
     \/ /\ sv' = [sv EXCEPT !.st = "threw"]        \* adapter.exists throws
  /\ UNCHANGED <<files, folders, host, editorVars, cfgVars, wfVars, rw>>

\* adapter.writeBinary(finalPath, ...) and the return of finalPath
SaveWrite ==
  /\ sv.st = "write"
  /\ \/ /\ files' = [p \in DOMAIN files \cup {sv.finalPath} |->
                       IF p = sv.finalPath THEN sv.content ELSE files[p]]
        /\ sv' = [sv EXCEPT !.st = "returned"]
     \/ /\ sv' = [sv EXCEPT !.st = "threw"]        \* writeBinary throws
        /\ UNCHANGED files
  /\ UNCHANGED <<folders, host, editorVars, cfgVars, wfVars, rw>>

----------------------------------------------------------------------------
\* Editor (the host's document): cursor arithmetic, replaceSelection, setValue

\* number of "\n" in the first n characters of s
NewlinesBefore(s, n) == Cardinality({i \in 1..n : s[i] = "\n"})

\* offset (number of characters before it) of the start of a 0-based line
LineStart(s, line) ==
  IF line = 0 THEN 0
  ELSE Min({i \in 1..Len(s) : s[i] = "\n" /\ NewlinesBefore(s, i) = line})

LineLength(s, line) ==
  LET st   == LineStart(s, line)
      ends == {i \in (st + 1)..Len(s) : s[i] = "\n"} IN
  (IF ends = {} THEN Len(s) ELSE Min(ends) - 1) - st

\* a position clipped to the document, as the editor does on setCursor
ClipPos(s, pos) ==
  LET line == IF pos[1] > NewlinesBefore(s, Len(s))
              THEN NewlinesBefore(s, Len(s)) ELSE pos[1]
      ch   == IF pos[1] > NewlinesBefore(s, Len(s)) THEN LineLength(s, line)
              ELSE IF pos[2] > LineLength(s, line) THEN LineLength(s, line)
              ELSE pos[2] IN
  <<line, ch>>

PosToOffset(s, pos) ==
  LET c == ClipPos(s, pos) IN LineStart(s, c[1]) + c[2]

OffsetToPos(s, off) ==
  LET line == NewlinesBefore(s, off) IN <<line, off - LineStart(s, line)>>

\* editor.replaceSelection(text) with an empty selection: the text goes in at
\* the cursor and the cursor ends up behind it
replaceSelection(s, pos, text) ==
  LET off == PosToOffset(s, pos)
      new == SubSeq(s, 1, off) \o text \o From(s, off + 1) IN
  [doc |-> new, cursor |-> OffsetToPos(new, off + Len(text))]

----------------------------------------------------------------------------
\* StringUtils

\* StringUtils.formatLink(url, text, isImage)
formatLink(url, text, isImage) ==
  (IF isImage THEN <<"!">> ELSE <<>>) \o <<"[">> \o text \o <<"]", "(">>
    \o url \o <<")">>

\* first position >= i of s holding character c, 0 when there is none
FirstAt(s, c, i) ==
  LET ps == {k \in i..Len(s) : s[k] = c} IN IF ps = {} THEN 0 ELSE Min(ps)

\* the global pattern StringUtils.createLinkPattern(linkPath) builds,
\*   !?\[[^\]]*\]\([^)]*<linkPath, escaped>[^)]*\)
\* tried at position i of s: the position of the last character of the match
\* the backtracking engine settles on, 0 when the pattern does not match at i
LinkMatchEnd(s, linkPath, i) ==
  IF i > Len(s) THEN 0
  ELSE
  LET a == IF s[i] = "!" THEN i + 1 ELSE i IN            \* !?
  IF a > Len(s) \/ s[a] # "[" THEN 0                      \* \[
  ELSE
  LET b == FirstAt(s, "]", a + 1) IN                      \* [^\]]*\]
  IF b = 0 \/ b + 1 > Len(s) \/ s[b + 1] # "(" THEN 0     \* \(
  ELSE
  LET c  == b + 2
      \* [^)]* stops at the first ")" : the path starts at or before it
      e  == IF FirstAt(s, ")", c) = 0 THEN Len(s) + 1 ELSE FirstAt(s, ")", c)
      \* greedy: the rightmost start of the path the rest can match from
      js == {j \in c..e : /\ OccursAt(s, linkPath, j)
                          /\ FirstAt(s, ")", j + Len(linkPath)) # 0} IN
  IF js = {} THEN 0 ELSE FirstAt(s, ")", Max(js) + Len(linkPath))

\* regex.test(content)
LinkTest(s, linkPath) == \E i \in 1..Len(s) : LinkMatchEnd(s, linkPath, i) # 0

ImageExtensions == {"png", "jpg", "jpeg", "gif", "webp", "svg", "bmp"}

\* /\.(png|jpg|jpeg|gif|webp|svg|bmp)$/i.test(localPath); an extension is one
\* element of the text
HasImageExtension(localPath) ==
  /\ Len(localPath) >= 2
  /\ localPath[Len(localPath)] \in ImageExtensions
  /\ localPath[Len(localPath) - 1] = "."

\* match.match(/!{0,1}\[(.*?)\]/): <<found, group 1>>
MdMatch(m) ==
  LET ok(k) == LET a == IF m[k] = "!" THEN k + 1 ELSE k IN
               /\ a <= Len(m) /\ m[a] = "["
               /\ FirstAt(m, "]", a + 1) # 0
               /\ \A t \in (a + 1)..(FirstAt(m, "]", a + 1) - 1) : m[t] # "\n"
      ks == {k \in 1..Len(m) : ok(k)} IN
  IF ks = {} THEN <<FALSE, <<>>>>
  ELSE LET k == Min(ks)
           a == IF m[k] = "!" THEN k + 1 ELSE k IN
       <<TRUE, SubSeq(m, a + 1, FirstAt(m, "]", a + 1) - 1)>>

\* match.match(/\|(.*?)]]/): <<found, group 1>>
WikiMatch(m) ==
  LET close(k) == {b \in (k + 1)..(Len(m) - 1) :
                     /\ m[b] = "]" /\ m[b + 1] = "]"
                     /\ \A t \in (k + 1)..(b - 1) : m[t] # "\n"}
      ks == {k \in 1..Len(m) : m[k] = "|" /\ close(k) # {}} IN
  IF ks = {} THEN <<FALSE, <<>>>>
  ELSE LET k == Min(ks) IN <<TRUE, SubSeq(m, k + 1, Min(close(k)) - 1)>>

----------------------------------------------------------------------------
\* LinkReplaceProcessor

\* the replacer callback of process: the text put in place of one match
Replacement(m, localPath, remoteUrl) ==
  LET isImageContext ==
        \/ m[1] = "!"
        \/ /\ OccursAt(m, <<"[", "[">>, 1)
           /\ HasImageExtension(localPath)
      alt0    == IF MdMatch(m)[1] THEN MdMatch(m)[2] ELSE localPath
      altText == IF WikiMatch(m)[1] THEN WikiMatch(m)[2] ELSE alt0 IN
  formatLink(remoteUrl, altText, isImageContext)

RECURSIVE MutReplaceFrom(_, _, _, _)
MutReplaceFrom(s, localPath, remoteUrl, i) ==
  IF i > Len(s) THEN <<>>
  ELSE LET e == LinkMatchEnd(s, localPath, i) IN
       IF e = 0 THEN <<s[i]>> \o MutReplaceFrom(s, localPath, remoteUrl, i + 1)
       ELSE Replacement(SubSeq(s, i, e), localPath, remoteUrl) \o From(s, e + 1)

\* content.replace(regex, replacer) from position i on: the pattern carries
\* the "g" flag, so the scan goes on behind every match
RECURSIVE ReplaceFrom(_, _, _, _)
ReplaceFrom(s, localPath, remoteUrl, i) ==
  IF i > Len(s) THEN <<>>
  ELSE LET e == LinkMatchEnd(s, localPath, i) IN
       IF e = 0 THEN <<s[i]>> \o ReplaceFrom(s, localPath, remoteUrl, i + 1)
       ELSE Replacement(SubSeq(s, i, e), localPath, remoteUrl)
              \o ReplaceFrom(s, localPath, remoteUrl, e + 1)

Mutprocess(content, pos, localPath, remoteUrl) ==
  IF ~LinkTest(content, localPath)
  THEN [doc |-> content, cursor |-> pos, ret |-> FALSE]
  ELSE LET newContent == ReplaceFrom(content, localPath, remoteUrl, 1) IN
       [doc |-> newContent, cursor |-> ClipPos(newContent, pos), ret |-> TRUE]

\* LinkReplaceProcessor.process(editor, localPath, remoteUrl): the editor
\* afterwards and the value returned
process(content, pos, localPath, remoteUrl) ==
  IF ~LinkTest(content, localPath)
  THEN [doc |-> content, cursor |-> pos, ret |-> FALSE]
  ELSE LET newContent == ReplaceFrom(content, localPath, remoteUrl, 1) IN
       IF newContent # content
       THEN [doc |-> newContent, cursor |-> ClipPos(newContent, pos),
             ret |-> TRUE]
       ELSE [doc |-> content, cursor |-> pos, ret |-> FALSE]

MutreplaceLinkInEditor(content, pos, localPath, remoteUrl) ==
  LET r == process(content, pos, localPath, remoteUrl) IN
  [doc |-> r.doc, cursor |-> r.cursor, ret |-> r.ret, notice |-> "uploaded"]

\* PasteHandler.replaceLinkInEditor(editor, localPath, remoteUrl): the rewrite
\* and the notice shown for its result
replaceLinkInEditor(content, pos, localPath, remoteUrl) ==
  LET r == process(content, pos, localPath, remoteUrl) IN
  [doc |-> r.doc, cursor |-> r.cursor, ret |-> r.ret,
   notice |-> IF r.ret THEN "uploaded" ELSE "replace_failed"]

----------------------------------------------------------------------------
\* File names (utils/fileUtils.ts)

WordChars == {"a", "b", "n", "s", "z", "_", "image", "bin", "png", "webp",
              "pdf", "0", "1", "2", "3", "4", "5", "6", "7", "8", "9"}

RECURSIVE Filter(_, _)
Filter(s, keep) ==
  IF s = <<>> THEN <<>>
  ELSE (IF Head(s) \in keep THEN <<Head(s)>> ELSE <<>>) \o Filter(Tail(s), keep)

\* s.replace(/\s+/g, "_")
RECURSIVE CollapseSpaces(_)
CollapseSpaces(s) ==
  IF s = <<>> THEN <<>>
  ELSE IF Head(s) = " "
  THEN IF Len(s) > 1 /\ s[2] = " " THEN CollapseSpaces(Tail(s))
       ELSE <<"_">> \o CollapseSpaces(Tail(s))
  ELSE <<Head(s)>> \o CollapseSpaces(Tail(s))

MaxNameLen == 100

\* sanitizeFileName(fileName)
sanitizeFileName(fileName) ==
  LET kept == CollapseSpaces(Filter(fileName, WordChars \cup {" ", ".", "-"})) IN
  SubSeq(kept, 1, IF Len(kept) > MaxNameLen THEN MaxNameLen ELSE Len(kept))

\* the one value Math.random().toString(36).substring(2, 8) takes here
RandomStr == <<"r">>

\* generateUniqueFileName(originalName, extension, preserveOriginalName) when
\* Date.now() returns timestamp and Math.random() gives randomStr
uniqueFileName(originalName, extension, preserveOriginalName, timestamp, randomStr) ==
  IF preserveOriginalName /\ originalName # <<>>
  THEN LET m        == ExtMatch(originalName)
           baseName == IF m = 0 THEN originalName
                       ELSE SubSeq(originalName, 1, m - 1) IN
       sanitizeFileName(baseName) \o <<"_">> \o NumToStr(timestamp)
         \o <<".">> \o extension
  ELSE <<"image", "_">> \o NumToStr(timestamp) \o <<"_">> \o randomStr
         \o <<".">> \o extension

\* generateUniqueFileName(originalName, extension, preserveOriginalName) when
\* Date.now() returns timestamp
generateUniqueFileName(originalName, extension, preserveOriginalName, timestamp) ==
  uniqueFileName(originalName, extension, preserveOriginalName, timestamp,
                 RandomStr)

\* file.name.split('.').pop() || "bin"
GenericExtension(name) ==
  LET last == From(name, LastDot(name) + 1) IN
  IF last = <<>> THEN <<"bin">> ELSE last

----------------------------------------------------------------------------
\* MediaRepository over R2Adapter (the workflow's remoteRepo)

\* MediaRepoConfig as the plugin builds it in onload, and the date new Date()
\* gives: getFullYear(), getMonth() (0 to 11), getDate()
uploadPathPattern == <<"u", "/", "{year}">>
publicBaseUrl     == <<"https:", "/", "/", "cdn">>
Today == [fullYear |-> 2025, month |-> 11, date |-> 19]

\* s.replace(token, value): the first occurrence of a one-element token
ReplaceToken(s, token, value) ==
  LET i == FirstAt(s, token, 1) IN
  IF i = 0 THEN s ELSE SubSeq(s, 1, i - 1) \o value \o From(s, i + 1)

\* s.replace(/^\/+|\/+$/g, "")
RECURSIVE StripSlashes(_)
StripSlashes(s) ==
  IF s # <<>> /\ Head(s) = "/" THEN StripSlashes(Tail(s))
  ELSE IF s # <<>> /\ s[Len(s)] = "/" THEN StripSlashes(SubSeq(s, 1, Len(s) - 1))
  ELSE s

\* s.padStart(2, "0")
padStart2(s) == IF Len(s) >= 2 THEN s ELSE IF Len(s) = 1 THEN <<"0">> \o s ELSE <<"0", "0">>

\* MediaRepository.generateKey(fileName) for a path pattern and a date
generateKeyAt(pattern, now, fileName) ==
  LET year  == NumToStr(now.fullYear)
      month == padStart2(NumToStr(now.month + 1))
      day   == padStart2(NumToStr(now.date))
      path  == StripSlashes(
                 ReplaceToken(ReplaceToken(ReplaceToken(pattern,
                   "{year}", year), "{month}", month), "{day}", day)) IN
  (IF path # <<>> /\ path[Len(path)] # "/" THEN path \o <<"/">> ELSE path)
    \o fileName

\* MediaRepository.generateKey(fileName)
generateKey(fileName) == generateKeyAt(uploadPathPattern, Today, fileName)

\* MediaRepository.constructPublicUrl(key) for a public base URL
constructPublicUrlOn(base, key) ==
  LET baseUrl  == IF base # <<>> /\ base[Len(base)] = "/"
                  THEN SubSeq(base, 1, Len(base) - 1)
                  ELSE base
      cleanKey == IF key # <<>> /\ Head(key) = "/" THEN Tail(key) ELSE key IN
  baseUrl \o <<"/">> \o cleanKey

\* MediaRepository.constructPublicUrl(key)
constructPublicUrl(key) == constructPublicUrlOn(publicBaseUrl, key)

\* R2Adapter.isConfigured()
MutisConfigured == TRUE

isConfigured == adapter.client /\ adapter.bucket


----------------------------------------------------------------------------
\* Values of the parts of the state a specification does not exercise

NoSettings == [enableUpload |-> FALSE, deleteLocalAfterUpload |-> FALSE,
               preserveOriginalName |-> FALSE, imageFormat |-> "webp"]
NoAdapter  == [client |-> FALSE, bucket |-> FALSE]
LocIdle    == [fileName |-> <<>>, localPath |-> <<>>, format |-> <<>>,
               url |-> <<>>, doc0 |-> <<>>, files0 |-> <<>>]
RwIdle     == [st |-> "idle", oldPath |-> <<>>, newUrl |-> <<>>,
               segs |-> <<>>, ret |-> FALSE, notice |-> "none"]

EditorIdle == doc = <<>> /\ cursor = <<0, 0>>
CfgIdle    == settings = NoSettings /\ adapter = NoAdapter
WfIdle     == /\ batch = <<>> /\ idx = 0 /\ pc = "idle" /\ loc = LocIdle
              /\ log = <<>> /\ clock = 0 /\ remote = <<>>

----------------------------------------------------------------------------
\* PasteHandler: handle, processImageWorkflow, processGenericFileWorkflow

Items ==
  { [isImage |-> TRUE,  name |-> <<"a", ".", "png">>],
    [isImage |-> FALSE, name |-> <<"a", ".", "pdf">>],
    [isImage |-> FALSE, name |-> <<"a", "]", ".", "pdf">>] }

Batches == UNION {[1..n -> Items] : n \in 0..MaxBatch}

file == batch[idx]

Ev(lg, e) == Append(lg, <<idx, e>>)

\* the locals of a workflow at its start, with the document and the vault it
\* starts from
ItemStart == [LocIdle EXCEPT !.doc0 = doc, !.files0 = files]

\* the first await of an item's workflow
FirstPc(item) == IF item.isImage THEN "validate" ELSE "read"

\* handle(files, editor, view) up to the first await of the first item
HandleStart ==
  /\ pc = "idle"
  /\ \/ /\ batch = <<>>
        /\ pc' = "returned"
        /\ UNCHANGED <<idx, log, loc>>
     \/ /\ batch # <<>>
        /\ idx' = 1
        /\ pc' = FirstPc(batch[1])
        /\ log' = Append(log, <<1, "start">>)
        /\ loc' = ItemStart
  /\ UNCHANGED <<vaultVars, editorVars, cfgVars, batch, clock, remote, sv, rw>>

MutHandleNext ==
  /\ pc \notin {"idle", "returned"}
  /\ \/ /\ idx < Len(batch)
        /\ idx' = idx + 1
        /\ pc' = FirstPc(batch[idx + 1])
        /\ log' = <<<<idx + 1, "start">>>>
        /\ loc' = ItemStart
     \/ /\ idx = Len(batch)
        /\ pc = "done"
        /\ pc' = "returned"
        /\ UNCHANGED <<idx, log, loc>>
  /\ UNCHANGED <<vaultVars, editorVars, cfgVars, batch, clock, remote, sv, rw>>

\* the for loop of handle: the next item, or the end of the batch
HandleNext ==
  /\ pc = "done"
  /\ \/ /\ idx < Len(batch)
        /\ idx' = idx + 1
        /\ pc' = FirstPc(batch[idx + 1])
        /\ log' = <<<<idx + 1, "start">>>>
        /\ loc' = ItemStart
     \/ /\ idx = Len(batch)
        /\ pc' = "returned"
        /\ UNCHANGED <<idx, log, loc>>
  /\ UNCHANGED <<vaultVars, editorVars, cfgVars, batch, clock, remote, sv, rw>>

MutCatch ==
  /\ pc' = "done"
  /\ log' = log

\* the catch block of a workflow
Catch ==
  /\ pc' = "done"
  /\ log' = Ev(log, "notice_error")

MutValidate ==
  /\ pc = "validate"
  /\ \/ /\ pc' = "process"
        /\ log' = Ev(log, "notice_invalid")
        /\ loc' = [loc EXCEPT !.format = <<settings.imageFormat>>]
     \/ /\ pc' = "process"
        /\ loc' = [loc EXCEPT !.format = <<settings.imageFormat>>]
        /\ UNCHANGED log
  /\ UNCHANGED <<vaultVars, editorVars, cfgVars, batch, idx, clock, remote, sv, rw>>

\* await ImageUtils.validateImage(file)
Validate ==
  /\ pc = "validate"
  /\ \/ /\ pc' = "done"                                \* not an image
        /\ log' = Ev(log, "notice_invalid")
        /\ UNCHANGED loc
     \/ /\ pc' = "process"
        /\ loc' = [loc EXCEPT !.format = <<settings.imageFormat>>]
        /\ UNCHANGED log
  /\ UNCHANGED <<vaultVars, editorVars, cfgVars, batch, idx, clock, remote, sv, rw>>

\* await ImageConvertProcessor.process(file, options)
Process ==
  /\ pc = "process"
  /\ \/ pc' = "buffer" /\ UNCHANGED log
     \/ Catch                                          \* decode or encode failed
  /\ UNCHANGED <<vaultVars, editorVars, cfgVars, batch, idx, loc, clock, remote, sv, rw>>

\* generateUniqueFileName and the call of localRepo.save
NameAndSave(extension) ==
  \E timestamp \in {t \in {clock, clock + 1} : t >= 1 /\ t <= MaxClock} :
    LET fileName == generateUniqueFileName(file.name, extension,
                      settings.preserveOriginalName, timestamp) IN
    /\ clock' = timestamp
    /\ loc' = [loc EXCEPT !.fileName = fileName, !.format = extension]
    /\ sv' = SaveCall(fileName, idx)
    /\ pc' = "save"
    /\ log' = Ev(log, "save_call")

\* await processed.blob.arrayBuffer(), then steps 1-2 of the image workflow
Buffer ==
  /\ pc = "buffer"
  /\ NameAndSave(loc.format)
  /\ UNCHANGED <<vaultVars, editorVars, cfgVars, batch, idx, remote, rw>>

\* await file.arrayBuffer(), then steps 1-2 of the generic workflow
Read ==
  /\ pc = "read"
  /\ \/ NameAndSave(GenericExtension(file.name))
     \/ Catch /\ UNCHANGED <<loc, clock, sv>>          \* the read failed
  /\ UNCHANGED <<vaultVars, editorVars, cfgVars, batch, idx, remote, rw>>

\* a workflow without its try/catch: the exception of localRepo.save leaves
\* handle, whose promise rejects
MutSaveFailed ==
  /\ pc = "save"
  /\ sv.st = "threw"
  /\ pc' = "returned"
  /\ log' = log
  /\ sv' = SvIdle
  /\ UNCHANGED <<vaultVars, editorVars, cfgVars, batch, idx, loc, clock, remote, rw>>

\* localRepo.save threw: the catch block
SaveFailed ==
  /\ pc = "save"
  /\ sv.st = "threw"
  /\ Catch
  /\ sv' = SvIdle
  /\ UNCHANGED <<vaultVars, editorVars, cfgVars, batch, idx, loc, clock, remote, rw>>

\* settingsManager.get().enableUpload
MutUploadEnabled == TRUE

UploadEnabled == settings.enableUpload

\* localRepo.save returned: step 3 (the local link goes into the document)
\* and step 4 up to the await of the transfer; MediaRepository.upload and
\* R2Adapter.put return without a transfer when the adapter is not configured
AfterSave ==
  /\ pc = "save"
  /\ sv.st = "returned"
  /\ LET localPath == sv.finalPath
         localLink == IF file.isImage THEN formatLink(localPath, <<>>, TRUE)
                      ELSE formatLink(localPath, file.name, FALSE)
         ins       == replaceSelection(doc, cursor, localLink \o <<"\n">>)
         lg        == Ev(Ev(log, "saved"), "insert") IN
     /\ doc' = ins.doc
     /\ cursor' = ins.cursor
     /\ loc' = [loc EXCEPT !.localPath = localPath]
     /\ sv' = SvIdle
     /\ \/ /\ ~UploadEnabled
           /\ pc' = "done"
           /\ log' = Ev(lg, "local_only")
        \/ /\ UploadEnabled
           /\ ~(isConfigured /\ adapter.client)
           /\ pc' = "done"
           /\ log' = Ev(Ev(lg, "upload_fail"), "notice_upload_failed")
        \/ /\ UploadEnabled
           /\ isConfigured /\ adapter.client
           /\ pc' = "transfer"
           /\ log' = Ev(lg, "put")
  /\ UNCHANGED <<vaultVars, cfgVars, batch, idx, clock, remote, rw>>

\* the guard of localRepo.delete in the workflow
DeleteWanted(replaced) == settings.deleteLocalAfterUpload

\* a workflow that rolls the document back when the transfer fails
MutTransferFailed ==
  /\ pc = "transfer"
  /\ pc' = "done"
  /\ log' = Ev(Ev(log, "upload_fail"), "notice_upload_failed")
  /\ doc' = loc.doc0
  /\ UNCHANGED <<vaultVars, cursor, cfgVars, batch, idx, loc, clock,
                 remote, sv, rw>>

\* await upload.done() in R2Adapter.put rejected: the failure result goes
\* back through MediaRepository.upload, the workflow shows the notice
TransferFailed ==
  /\ pc = "transfer"
  /\ pc' = "done"
  /\ log' = Ev(Ev(log, "upload_fail"), "notice_upload_failed")
  /\ UNCHANGED <<vaultVars, editorVars, cfgVars, batch, idx, loc, clock,
                 remote, sv, rw>>

\* await upload.done() in R2Adapter.put resolved, the return through
\* MediaRepository.upload, and steps 5-6 up to the await in localRepo.delete
TransferDone ==
  /\ pc = "transfer"
  /\ LET key == generateKey(loc.fileName)
         url == constructPublicUrl(key)
         r   == replaceLinkInEditor(doc, cursor, loc.localPath, url) IN
     /\ remote' = [k \in DOMAIN remote \cup {key} |->
                     IF k = key THEN idx ELSE remote[k]]
     /\ loc' = [loc EXCEPT !.url = url]
     /\ doc' = r.doc
     /\ cursor' = r.cursor
     /\ \/ /\ DeleteWanted(r.ret)
           /\ pc' = "del_exists"
           /\ log' = Ev(Ev(Ev(log, "upload_ok"),
                         IF r.notice = "uploaded" THEN "rewrite_ok"
                         ELSE "rewrite_nf"),
                         "delete_call")
        \/ /\ ~DeleteWanted(r.ret)
           /\ pc' = "done"
           /\ log' = Ev(Ev(log, "upload_ok"),
                         IF r.notice = "uploaded" THEN "rewrite_ok"
                         ELSE "rewrite_nf")
  /\ UNCHANGED <<vaultVars, cfgVars, batch, idx, clock, sv, rw>>

\* the transfer settles, one way or the other
Transfer == TransferFailed \/ TransferDone

\* LocalRepository.delete: await adapter.exists(path)
DelExists ==
  /\ pc = "del_exists"
  /\ \/ pc' = IF loc.localPath \in DOMAIN files THEN "del_remove" ELSE "done"
     \/ pc' = "done"                                   \* exists threw: swallowed
  /\ UNCHANGED <<vaultVars, editorVars, cfgVars, batch, idx, loc, log, clock,
                 remote, sv, rw>>

\* delete without its try/catch: a removal that throws reaches the catch
\* block of the workflow
MutDelRemove ==
  /\ pc = "del_remove"
  /\ \/ /\ files' = [p \in DOMAIN files \ {loc.localPath} |-> files[p]]
        /\ log' = Ev(log, "removed")
        /\ pc' = "done"
     \/ UNCHANGED files /\ Catch
  /\ UNCHANGED <<folders, host, editorVars, cfgVars, batch, idx, loc, clock,
                 remote, sv, rw>>

\* LocalRepository.delete: await adapter.remove(path)
DelRemove ==
  /\ pc = "del_remove"
  /\ \/ /\ files' = [p \in DOMAIN files \ {loc.localPath} |-> files[p]]
        /\ log' = Ev(log, "removed")
     \/ UNCHANGED <<files, log>>                       \* remove threw: swallowed
  /\ pc' = "done"
  /\ UNCHANGED <<folders, host, editorVars, cfgVars, batch, idx, loc, clock,
                 remote, sv, rw>>

----------------------------------------------------------------------------
\* The settings tab: a setting is changed while the workflow is suspended

UpdateSettings ==
  /\ pc \notin {"idle", "returned"}
  /\ \/ settings' = [settings EXCEPT !.enableUpload = ~@]
     \/ settings' = [settings EXCEPT !.deleteLocalAfterUpload = ~@]
  /\ UNCHANGED <<vaultVars, editorVars, adapter, wfVars, sv, rw>>

----------------------------------------------------------------------------
\* One paste/drop batch

\* the adapter as R2Adapter.initialize leaves it: with or without a client
\* (credentials), with or without a bucket name
Configured == [client |-> TRUE, bucket |-> TRUE]

Adapters ==
  { Configured,
    [client |-> FALSE, bucket |-> TRUE],
    [client |-> TRUE,  bucket |-> FALSE] }

\* the plugin and the vault a batch starts in: the attachment folder setting,
\* the view's file, the files already there, the preserve-original-name
\* setting and the adapter
Scenarios ==
  { [cfg |-> <<"d">>, file |-> NoFile, existing |-> {}, preserve |-> FALSE,
     adapters |-> Adapters],
    [cfg |-> <<"d">>, file |-> NoFile,
     existing |-> {<<"d", "/", "image", "_", "1", "_", "r", ".", "webp">>},
     preserve |-> FALSE, adapters |-> {Configured}],
    [cfg |-> <<".", "/">>,
     file |-> [isNull |-> FALSE, hasParent |-> FALSE, parentPath |-> <<>>],
     existing |-> {}, preserve |-> TRUE, adapters |-> {Configured}] }

Init ==
  /\ \E sc \in Scenarios :
       /\ host = [cfg |-> sc.cfg, file |-> sc.file]
       /\ files = [p \in sc.existing |-> 0]
       /\ settings \in [enableUpload : BOOLEAN, deleteLocalAfterUpload : BOOLEAN,
                        preserveOriginalName : {sc.preserve},
                        imageFormat : {"webp"}]
       /\ adapter \in sc.adapters
  /\ folders = {}
  /\ doc = <<>> /\ cursor = <<0, 0>>
  /\ remote = <<>>
  /\ clock = 0
  /\ batch \in Batches
  /\ idx = 0 /\ pc = "idle" /\ loc = LocIdle /\ log = <<>>
  /\ sv = SvIdle
  /\ rw = RwIdle

Next ==
  \/ HandleStart \/ HandleNext
  \/ Validate \/ Process \/ Buffer \/ Read
  \/ SaveEnsure \/ SaveMkdir \/ SaveCheck \/ SaveWrite
  \/ SaveFailed \/ AfterSave \/ Transfer \/ DelExists \/ DelRemove
  \/ UpdateSettings

Spec == Init /\ [][Next]_vars

\* every awaited operation of the host (vault, canvas) settles, and the event
\* loop then runs the continuation of the workflow
Continue ==
  \/ HandleStart \/ HandleNext
  \/ Validate \/ Process \/ Buffer \/ Read
  \/ SaveEnsure \/ SaveMkdir \/ SaveCheck \/ SaveWrite
  \/ SaveFailed \/ DelExists \/ DelRemove

\* the continuation behind await localRepo.save runs once save has returned:
\* the steps of AfterSave, told by the position they leave and reach
Resume == pc = "save" /\ sv.st = "returned" /\ pc' \in {"done", "transfer"}

\* a transfer does not stay pending for ever: at the latest the request of
\* the client fails and upload.done() rejects
SpecLive ==
  /\ Init /\ [][Next]_vars
  /\ WF_vars(Continue) /\ WF_pc(Resume) /\ WF_vars(TransferFailed)


----------------------------------------------------------------------------
\* LocalRepository.save on its own: any file name, any attachment folder,
\* any set of files already in the vault


\* a name has an extension when something other than a path separator
\* follows its last "."
HasExtension(name) ==
  /\ LastDot(name) > 0
  /\ LastDot(name) < Len(name)
  /\ \A j \in (LastDot(name) + 1)..Len(name) : name[j] # "/"

\* the k-th name of the sequence name.ext, name_1.ext, name_2.ext, ...
RefCandidate(dir, name, k) ==
  IF k = 0 THEN dir \o <<"/">> \o name
  ELSE IF HasExtension(name)
  THEN dir \o <<"/">> \o SubSeq(name, 1, LastDot(name) - 1) \o <<"_">>
         \o NumToStr(k) \o From(name, LastDot(name))
  ELSE dir \o <<"/">> \o name \o <<"_">> \o NumToStr(k)

SaveNames ==
  { <<"image", ".", "png">>, <<"a">>, <<".", "p">>, <<"a", ".">>,
    <<"a", ".", "b", ".", "p">>, <<"a", "_", "1", ".", "p">> }

SaveCfgs ==
  { <<>>, <<".">>, <<".", "/">>, <<".", "/", "s">>, <<"d">> }

SaveViewFiles ==
  { NoFile,
    [isNull |-> FALSE, hasParent |-> FALSE, parentPath |-> <<>>],
    [isNull |-> FALSE, hasParent |-> TRUE, parentPath |-> <<"n">>] }

InitSave ==
  /\ host \in [cfg : SaveCfgs, file : SaveViewFiles]
  /\ \E name \in SaveNames :
       LET dir   == getAttachmentFolder(host.cfg, host.file)
           cands == {RefCandidate(dir, name, k) : k \in 0..(MaxExisting - 1)}
                      \cup {dir \o <<"/", "z">>} IN
       /\ \E S \in SUBSET cands : files = [p \in S |-> 0]
       /\ folders \in {{}, {dir}}
       /\ sv = SaveCall(name, 1)
  /\ rw = RwIdle
  /\ EditorIdle /\ CfgIdle /\ WfIdle

NextSave == SaveEnsure \/ SaveMkdir \/ SaveCheck \/ SaveWrite

SpecSave == InitSave /\ [][NextSave]_vars

\* C7: LocalRepository.save never overwrites: the path it wrote and returned
\* did not exist when it was called, and every file that existed then is
\* still there with its content.
C7_SaveNeverOverwrites ==
  sv.st = "returned" =>
    /\ sv.finalPath \notin DOMAIN sv.before
    /\ sv.finalPath \in DOMAIN files
    /\ files[sv.finalPath] = sv.content
    /\ \A p \in DOMAIN sv.before :
         p \in DOMAIN files /\ files[p] = sv.before[p]

\* C7 witness: a save returned although the plain path dir/fileName existed
C7_Witness ==
  /\ sv.st = "returned"
  /\ (sv.dir \o <<"/">> \o sv.fileName) \in DOMAIN sv.before
  /\ sv.counter > 1

\* C8: the path save settles on is the first free name of the sequence
\* dir/base.ext, dir/base_1.ext, dir/base_2.ext, ...; the loop has tried, in
\* order, exactly the candidates before it, all of which exist, so it ends
\* after at most as many iterations as there are existing files.
C8_FirstFreeCandidate ==
  /\ sv.st \in {"check", "write", "returned"} =>
       /\ sv.counter >= 1
       /\ sv.finalPath = RefCandidate(sv.dir, sv.fileName, sv.counter - 1)
       /\ \A j \in 0..(sv.counter - 2) :
            RefCandidate(sv.dir, sv.fileName, j) \in DOMAIN sv.before
       /\ sv.counter - 1 <= Cardinality(DOMAIN sv.before)
  /\ sv.st \in {"write", "returned"} => sv.finalPath \notin DOMAIN sv.before

\* C8 witness: image.png and image_1.png exist, saving image.png wrote
\* image_2.png
C8_Witness ==
  /\ sv.st = "returned"
  /\ sv.fileName = <<"image", ".", "png">>
  /\ sv.dir = <<"d">>
  /\ <<"d", "/", "image", ".", "png">> \in DOMAIN sv.before
  /\ <<"d", "/", "image", "_", "1", ".", "png">> \in DOMAIN sv.before
  /\ sv.finalPath = <<"d", "/", "image", "_", "2", ".", "png">>

----------------------------------------------------------------------------
\* Properties of one batch (Spec)

Has(i, e) == \E k \in DOMAIN log : log[k] = <<i, e>>

ContainsSub(s, p) == \E i \in 1..(Len(s) + 1) : OccursAt(s, p, i)

\* the local link step 3 inserted for the running item
LocalLink ==
  IF file.isImage THEN formatLink(loc.localPath, <<>>, TRUE)
  ELSE formatLink(loc.localPath, file.name, FALSE)

\* C1: the local file is removed only after, in the same run, the upload
\* succeeded and the link rewrite reported success; never when the rewrite
\* reported not-found.
C1_DeleteOnlyAfterRewrite ==
  \A k \in DOMAIN log :
    log[k][2] = "removed" =>
      /\ \E j \in 1..(k - 1) : log[j] = <<log[k][1], "upload_ok">>
      /\ \E j \in 1..(k - 1) : log[j] = <<log[k][1], "rewrite_ok">>
      /\ ~\E j \in 1..(k - 1) : log[j] = <<log[k][1], "rewrite_nf">>

\* C2: a run that ends through a failure path after the insertion (upload
\* failed, or the rewrite found no match) ends with the local link in the
\* document and the local file in the vault.
C2_FailureKeepsLocal ==
  (/\ pc = "done"
   /\ Has(idx, "insert")
   /\ Has(idx, "upload_fail") \/ Has(idx, "rewrite_nf"))
  => /\ ContainsSub(doc, LocalLink)
     /\ loc.localPath \in DOMAIN files

\* C19: LocalRepository.delete is best-effort: the removal is attempted only
\* after the existence check found the file, delete never throws (a failing
\* check or removal ends the call with no error notice), only the local file
\* is removed, and a deletion that failed leaves the item done with the
\* document as the rewrite left it, the remote reference included.
C19_DeleteBestEffort ==
  [][(pc \in {"del_exists", "del_remove"} /\ pc' # pc)
     => /\ pc' \in {"del_remove", "done"}
        /\ pc' = "del_remove"
             => pc = "del_exists" /\ loc.localPath \in DOMAIN files
        /\ files' # files
             => /\ pc = "del_remove"
                /\ loc.localPath \in DOMAIN files
                /\ files' = [p \in DOMAIN files \ {loc.localPath} |-> files[p]]
                /\ log' = Ev(log, "removed")
        /\ files' = files => log' = log
        /\ doc' = doc /\ cursor' = cursor /\ remote' = remote
        /\ ~\E k \in DOMAIN log' : log'[k][2] = "notice_error"
        /\ (pc' = "done" /\ files' = files)
             => /\ Has(idx, "upload_ok")
                /\ Has(idx, "rewrite_ok") => ContainsSub(doc', loc.url)
    ]_vars

\* C19 witness: the item is done after a deletion that failed: the rewrite
\* succeeded, delete was called, the local file is still in the vault and the
\* remote reference is in the document
C19_Witness ==
  /\ pc = "done"
  /\ Has(idx, "rewrite_ok") /\ Has(idx, "delete_call")
  /\ ~Has(idx, "removed") /\ ~Has(idx, "notice_error")
  /\ loc.localPath \in DOMAIN files
  /\ ContainsSub(doc, loc.url)

\* the outcomes a finished item can have
Abandoned     == ~Has(idx, "insert")
                 /\ (Has(idx, "notice_invalid") \/ Has(idx, "notice_error"))
LocalOnly     == Has(idx, "insert") /\ Has(idx, "local_only")
Rewritten     == Has(idx, "insert") /\ Has(idx, "upload_ok")
                 /\ Has(idx, "rewrite_ok")
FallbackLocal == Has(idx, "insert")
                 /\ (Has(idx, "upload_fail") \/ Has(idx, "rewrite_nf"))

C22_SaveInsertUpload ==
  [][ /\ (~Has(idx, "insert") /\ idx' = idx
          /\ \E k \in DOMAIN log' : log'[k] = <<idx, "insert">>)
         => /\ sv.st = "returned"
            /\ sv.finalPath \in DOMAIN files
            /\ \E i \in 0..Len(doc) :
                 doc' = SubSeq(doc, 1, i)
                          \o formatLink(sv.finalPath,
                                        IF file.isImage THEN <<>> ELSE file.name,
                                        file.isImage)
                          \o <<"\n">> \o From(doc, i + 1)
            /\ ~Has(idx, "put") /\ ~Has(idx, "upload_ok")
            /\ ~Has(idx, "upload_fail")
      /\ \A k \in DOMAIN log' :
           log'[k][2] \in {"put", "upload_ok", "upload_fail"}
             => \E j \in 1..(k - 1) : log'[j] = <<idx', "insert">>
      /\ (Has(idx, "insert") /\ idx' = idx)
         => \/ ContainsSub(doc', LocalLink)
            \/ /\ \E k \in DOMAIN log' : log'[k] = <<idx, "rewrite_ok">>
               /\ ContainsSub(doc', loc'.url)
      /\ doc' # doc
         => \/ ~Has(idx, "insert")
               /\ \E k \in DOMAIN log' : log'[k] = <<idx, "insert">>
            \/ ~Has(idx, "rewrite_ok")
               /\ \E k \in DOMAIN log' : log'[k] = <<idx, "rewrite_ok">>
    ]_vars

\* C22 witness: the transfer of a second item failed after its reference was
\* inserted behind the first item's: the local reference and the local file
\* are still there
C22_Witness ==
  /\ idx = 2 /\ pc = "done"
  /\ Has(2, "insert") /\ Has(2, "put") /\ Has(2, "upload_fail")
  /\ loc.doc0 # <<>>
  /\ ContainsSub(doc, LocalLink)
  /\ loc.localPath \in DOMAIN files

\* C3: when localRepo.save throws, the run ends there: nothing is inserted,
\* the document is as it was when the item started, no upload is attempted,
\* and the user gets the error notice.
C3_SaveFailureIsFatal ==
  (/\ idx > 0
   /\ Has(idx, "save_call")
   /\ ~Has(idx, "saved")
   /\ pc # "save")
  => /\ pc \in {"done", "returned"}
     /\ Has(idx, "notice_error")
     /\ ~Has(idx, "insert")
     /\ ~Has(idx, "put") /\ ~Has(idx, "upload_fail") /\ ~Has(idx, "upload_ok")
     /\ doc = loc.doc0

\* C3 witness: the save of a second item failed after the first item's link
\* went into the document
C3_Witness ==
  /\ idx = 2 /\ pc = "done"
  /\ Has(2, "save_call") /\ ~Has(2, "saved") /\ Has(2, "notice_error")
  /\ loc.doc0 # <<>>
  /\ doc = loc.doc0

\* C4: an image that fails validation or decoding is abandoned before any
\* local write: no file is created, nothing is inserted, no upload is
\* attempted, and the user is notified.
C4_InvalidImageAbandoned ==
  (/\ idx > 0
   /\ file.isImage
   /\ \/ Has(idx, "notice_invalid")
      \/ Has(idx, "notice_error") /\ ~Has(idx, "save_call"))
  => /\ pc \in {"done", "returned"}
     /\ ~Has(idx, "save_call") /\ ~Has(idx, "insert")
     /\ ~Has(idx, "put") /\ ~Has(idx, "upload_fail") /\ ~Has(idx, "upload_ok")
     /\ files = loc.files0
     /\ doc = loc.doc0

\* C4 witness: a second item, an image, failed validation after the first
\* item was saved and inserted; the vault and the document are as the first
\* item left them
C4_Witness ==
  /\ idx = 2 /\ pc = "done"
  /\ batch[2].isImage /\ Has(2, "notice_invalid")
  /\ loc.files0 # <<>> /\ files = loc.files0
  /\ loc.doc0 # <<>> /\ doc = loc.doc0

\* C5: when enableUpload is off at step 4, the run ends with the insertion of
\* the local link: no call to the remote store, no rewrite, no deletion.
C5_UploadDisabledLocalOnly ==
  [][ (/\ pc = "save" /\ pc' # "save"
       /\ sv.st = "returned"
       /\ ~settings.enableUpload)
      => /\ pc' = "done"
         /\ remote' = remote
         /\ files' = files
         /\ doc' = replaceSelection(doc, cursor,
                     (IF file.isImage
                      THEN formatLink(sv.finalPath, <<>>, TRUE)
                      ELSE formatLink(sv.finalPath, file.name, FALSE))
                     \o <<"\n">>).doc
         /\ log' = Ev(Ev(Ev(log, "saved"), "insert"), "local_only") ]_vars

\* C5 witness: a run ended local-only although the adapter is configured
C5_Witness ==
  /\ pc = "done"
  /\ Has(idx, "local_only")
  /\ adapter.client /\ adapter.bucket
  /\ ContainsSub(doc, LocalLink)
  /\ remote = <<>>

\* C6: the items of a batch are processed one at a time, in input order: the
\* next item starts only when the running one has reached its end, and no
\* step is ever taken for an item other than the running one.
C6_OneItemAtATime ==
  [][ /\ idx' # idx => /\ idx' = idx + 1
                       /\ pc \in {"idle", "done"}
                       /\ sv.st = "idle"
      /\ idx' = idx => /\ Len(log') >= Len(log)
                       /\ SubSeq(log', 1, Len(log)) = log
      /\ \A k \in DOMAIN log' : log'[k][1] = idx' ]_vars

\* C6 witness: the second item is being transferred after the first one was
\* uploaded and rewritten
C6_Witness ==
  /\ idx = 2 /\ pc = "transfer"
  /\ remote # <<>>
  /\ ContainsSub(loc.doc0, publicBaseUrl)

\* C9: an upload through an adapter that is not configured returns a failure
\* result without calling the storage client and without throwing; a transfer
\* that fails is returned as a failure result, not thrown.
C9_UploadFailsClosed ==
  [][ /\ (/\ pc = "save" /\ pc' # "save"
          /\ sv.st = "returned"
          /\ settings.enableUpload
          /\ ~(adapter.client /\ adapter.bucket))
         => /\ pc' = "done"
            /\ remote' = remote
            /\ log' = Ev(Ev(Ev(Ev(log, "saved"), "insert"), "upload_fail"),
                         "notice_upload_failed")
      /\ (pc = "transfer" /\ pc' # "transfer" /\ remote' = remote)
         => /\ pc' = "done"
            /\ log' = Ev(Ev(log, "upload_fail"), "notice_upload_failed")
            /\ UNCHANGED <<files, doc>>
      /\ \A k \in DOMAIN log' :
           log'[k][2] = "put" /\ k > Len(log) => adapter.client /\ adapter.bucket
    ]_vars

\* C9 witness: credentials present but no bucket: the upload failed without a
\* call to the storage client
C9_Witness ==
  /\ pc = "done"
  /\ adapter.client /\ ~adapter.bucket
  /\ Has(idx, "upload_fail") /\ ~Has(idx, "put")
  /\ remote = <<>>

----------------------------------------------------------------------------
\* LinkReplaceProcessor.process on its own: documents made of up to
\* MaxSegments segments, some of them references to the local path

RwOldPath == <<"d", "/", "a", ".", "png">>
RwNewUrl  == <<"https:", "/", "/", "cdn", "/", "u", "/", "a", ".", "png">>

Segments == {"img", "lnk", "sub", "oth", "txt", "nl"}

SegText(g) ==
  CASE g = "img" -> formatLink(RwOldPath, <<>>, TRUE)
    [] g = "lnk" -> formatLink(RwOldPath, <<"x">>, FALSE)
    [] g = "sub" -> formatLink(<<"n", "/">> \o RwOldPath, <<"y">>, TRUE)
    [] g = "oth" -> formatLink(<<"d", "/", "b", ".", "pdf">>, <<"x">>, FALSE)
    [] g = "txt" -> <<"t">>
    [] g = "nl"  -> <<"\n">>

\* the segments that are references whose target contains the local path
IsRef(g) == g \in {"img", "lnk", "sub"}

\* a reference with its target replaced by the remote URL
SegRewritten(g) ==
  CASE g = "img" -> formatLink(RwNewUrl, <<>>, TRUE)
    [] g = "lnk" -> formatLink(RwNewUrl, <<"x">>, FALSE)
    [] g = "sub" -> formatLink(RwNewUrl, <<"y">>, TRUE)
    [] OTHER     -> SegText(g)

DocOf(segs) == Concat([k \in DOMAIN segs |-> SegText(segs[k])])

\* the document with every reference to the local path rewritten
AllRewritten(segs) ==
  Concat([k \in DOMAIN segs |->
            IF IsRef(segs[k]) THEN SegRewritten(segs[k]) ELSE SegText(segs[k])])

\* the document with only the first reference to the local path rewritten
FirstRewritten(segs) ==
  Concat([k \in DOMAIN segs |->
            IF IsRef(segs[k]) /\ \A j \in 1..(k - 1) : ~IsRef(segs[j])
            THEN SegRewritten(segs[k]) ELSE SegText(segs[k])])

RefCount(segs) == Cardinality({k \in DOMAIN segs : IsRef(segs[k])})

InitRewrite ==
  /\ \E segs \in UNION {[1..n -> Segments] : n \in 0..MaxSegments} :
       /\ doc = DocOf(segs)
       /\ rw = [st |-> "call", oldPath |-> RwOldPath, newUrl |-> RwNewUrl,
                segs |-> segs, ret |-> FALSE, notice |-> "none"]
  /\ cursor = <<0, 0>>
  /\ host = [cfg |-> <<>>, file |-> NoFile]
  /\ files = <<>> /\ folders = {}
  /\ sv = SvIdle
  /\ CfgIdle /\ WfIdle

\* PasteHandler.replaceLinkInEditor(editor, rw.oldPath, rw.newUrl)
RwProcess ==
  /\ rw.st = "call"
  /\ LET r == replaceLinkInEditor(doc, cursor, rw.oldPath, rw.newUrl) IN
     /\ doc' = r.doc
     /\ cursor' = r.cursor
     /\ rw' = [rw EXCEPT !.st = "done", !.ret = r.ret, !.notice = r.notice]
  /\ UNCHANGED <<vaultVars, cfgVars, wfVars, sv>>

NextRewrite == RwProcess

SpecRewrite == InitRewrite /\ [][NextRewrite]_vars

C11_NotFoundLeavesDocument ==
  (rw.st = "done" /\ RefCount(rw.segs) = 0)
  => /\ doc = DocOf(rw.segs)
     /\ cursor = <<0, 0>>
     /\ ~rw.ret
     /\ rw.notice = "replace_failed"

\* C11 witness: a rewrite of a document whose only reference targets another
\* file
C11_Witness ==
  /\ rw.st = "done"
  /\ rw.segs = <<"txt", "oth", "nl">>
  /\ ~rw.ret
  /\ doc = DocOf(rw.segs)

----------------------------------------------------------------------------
\* Two rewrites in a row with the same arguments, for the pairs of local path
\* and public URL the workflow produces

\* the text of a segment when the rewritten path is path
SegOn(g, path) ==
  CASE g = "img" -> formatLink(path, <<>>, TRUE)
    [] g = "lnk" -> formatLink(path, <<"x">>, FALSE)
    [] g = "sub" -> formatLink(<<"n", "/">> \o path, <<"y">>, TRUE)
    [] OTHER     -> SegText(g)

\* a reference to path with its target replaced by url
SegRewrittenOn(g, url) ==
  CASE g = "img" -> formatLink(url, <<>>, TRUE)
    [] g = "lnk" -> formatLink(url, <<"x">>, FALSE)
    [] g = "sub" -> formatLink(url, <<"y">>, TRUE)
    [] OTHER     -> SegText(g)

DocOn(segs, path) == Concat([k \in DOMAIN segs |-> SegOn(segs[k], path)])

AllRewrittenOn(segs, url) ==
  Concat([k \in DOMAIN segs |-> SegRewrittenOn(segs[k], url)])

\* the file names generateUniqueFileName gives the dropped items
RtNames ==
  { generateUniqueFileName(<<"a", ".", "png">>, <<"webp">>, FALSE, 1),
    generateUniqueFileName(<<"a", "]", ".", "pdf">>, <<"pdf">>, TRUE, 1) }

\* the attachment folders: a configured folder, and the folder of a note that
\* has no parent folder
RtFolders ==
  { getAttachmentFolder(<<"d">>, NoFile),
    getAttachmentFolder(<<".", "/">>,
      [isNull |-> FALSE, hasParent |-> FALSE, parentPath |-> <<>>]) }

\* localPath as LocalRepository.save returns it and the URL
\* MediaRepository.upload returns for the same file name
RtPairs ==
  { [oldPath |-> folder \o <<"/">> \o name,
     newUrl  |-> constructPublicUrl(generateKey(name))] :
      folder \in RtFolders, name \in RtNames }

InitRoundTrip ==
  /\ \E pr \in RtPairs, segs \in UNION {[1..n -> Segments] : n \in 0..MaxSegments} :
       /\ doc = DocOn(segs, pr.oldPath)
       /\ rw = [st |-> "call", oldPath |-> pr.oldPath, newUrl |-> pr.newUrl,
                segs |-> segs, ret |-> FALSE, notice |-> "none"]
  /\ cursor = <<0, 0>>
  /\ host = [cfg |-> <<>>, file |-> NoFile]
  /\ files = <<>> /\ folders = {}
  /\ sv = SvIdle
  /\ CfgIdle /\ WfIdle

\* a second PasteHandler.replaceLinkInEditor with the same arguments
RwAgain ==
  /\ rw.st = "done"
  /\ LET r == replaceLinkInEditor(doc, cursor, rw.oldPath, rw.newUrl) IN
     /\ doc' = r.doc
     /\ cursor' = r.cursor
     /\ rw' = [rw EXCEPT !.st = "again", !.ret = r.ret, !.notice = r.notice]
  /\ UNCHANGED <<vaultVars, cfgVars, wfVars, sv>>

NextRoundTrip == RwProcess \/ RwAgain

SpecRoundTrip == InitRoundTrip /\ [][NextRoundTrip]_vars

----------------------------------------------------------------------------
\* The rewrite of one reference: its marker, its label, the extension of the
\* local path and the text around it

LbLabels ==
  { <<>>, <<"x">>, <<"x", "|", "y">>, <<"[", "x">>, <<"x", "\n", "y">> }

LbPaths ==
  { <<"d", "/", "a", ".", "png">>, <<"d", "/", "a", ".", "pdf">>,
    <<"d", "/", "a">> }

LbBefore == { <<>>, <<"t", " ">> }
LbAfter  == { <<>>, <<"\n", "t">> }

\* the references the documents hold: marker, label, text before and after
LbRefs == [marker : BOOLEAN, label : LbLabels, before : LbBefore, after : LbAfter]

InitLabel ==
  /\ \E r \in LbRefs, path \in LbPaths :
       /\ doc = r.before \o formatLink(path, r.label, r.marker) \o r.after
       /\ rw = [st |-> "call", oldPath |-> path, newUrl |-> RwNewUrl,
                segs |-> <<r>>, ret |-> FALSE, notice |-> "none"]
  /\ cursor = <<0, 0>>
  /\ host = [cfg |-> <<>>, file |-> NoFile]
  /\ files = <<>> /\ folders = {}
  /\ sv = SvIdle
  /\ CfgIdle /\ WfIdle

NextLabel == RwProcess

SpecLabel == InitLabel /\ [][NextLabel]_vars

\* C13: the rewritten reference keeps the label of the original, and carries
\* the embed marker exactly when the original had it or the local path ends
\* in a raster-image extension.
C13_LabelAndMarker ==
  rw.st = "done"
  => LET r == rw.segs[1] IN
     /\ rw.ret
     /\ doc = r.before
               \o formatLink(rw.newUrl, r.label,
                             r.marker \/ HasImageExtension(rw.oldPath))
               \o r.after

----------------------------------------------------------------------------
\* One workflow run and the settings tab: the run of a single dropped item
\* from the first await of its workflow on, with the settings it started
\* under remembered in loc.settings0

\* the settings tab changes preserveOriginalName while the run is suspended
UpdateNaming ==
  /\ pc \notin {"idle", "returned"}
  /\ settings' = [settings EXCEPT !.preserveOriginalName = ~@]
  /\ UNCHANGED <<vaultVars, editorVars, adapter, wfVars, sv, rw>>

InitSettings ==
  /\ \E sc \in Scenarios :
       /\ host = [cfg |-> sc.cfg, file |-> sc.file]
       /\ files = [p \in sc.existing |-> 0]
       /\ settings \in [enableUpload : BOOLEAN, deleteLocalAfterUpload : BOOLEAN,
                        preserveOriginalName : {sc.preserve},
                        imageFormat : {"webp"}]
  /\ adapter = Configured
  /\ folders = {}
  /\ doc = <<>> /\ cursor = <<0, 0>>
  /\ remote = <<>>
  /\ clock = 0
  /\ batch \in {<<item>> : item \in Items}
  /\ idx = 1
  /\ pc = FirstPc(batch[1])
  /\ log = <<<<1, "start">>>>
  /\ loc = [f \in DOMAIN LocIdle \cup {"settings0"} |->
             CASE f = "settings0" -> settings
               [] f = "files0"    -> files
               [] OTHER           -> LocIdle[f]]
  /\ sv = SvIdle
  /\ rw = RwIdle

NextSettings ==
  \/ HandleNext
  \/ Validate \/ Process \/ Buffer \/ Read
  \/ SaveEnsure \/ SaveMkdir \/ SaveCheck \/ SaveWrite
  \/ SaveFailed \/ AfterSave \/ Transfer \/ DelExists \/ DelRemove
  \/ UpdateSettings \/ UpdateNaming

SpecSettings == InitSettings /\ [][NextSettings]_vars

\* C14: every settings-dependent decision of a run (the file name, whether to
\* upload, whether to delete the local file) is the one the settings at the
\* start of the run prescribe, whatever is changed while the run is suspended.
C14_SettingsSnapshot ==
  LET s0 == loc.settings0 IN
  /\ Has(1, "save_call")
     => \E t \in 1..MaxClock :
          loc.fileName = generateUniqueFileName(file.name, loc.format,
                                                s0.preserveOriginalName, t)
  /\ Has(1, "local_only") => ~s0.enableUpload
  /\ (Has(1, "put") \/ Has(1, "upload_fail")) => s0.enableUpload
  /\ Has(1, "delete_call") => s0.deleteLocalAfterUpload
  /\ (Has(1, "upload_ok") /\ pc \in {"done", "returned"}
      /\ ~Has(1, "delete_call")) => ~s0.deleteLocalAfterUpload

----------------------------------------------------------------------------
\* The settings tab and the remote repository: storage settings are changed,
\* the plugin is notified, uploads are started

PrNames   == { <<"f", ".", "png">> }
PrKeyIds  == { <<>>, <<"k", "1">> }
PrBuckets == { <<>>, <<"b", "1">>, <<"b", "2">> }
PrPatterns == { uploadPathPattern, <<"v", "/", "{month}">> }
PrBases    == { publicBaseUrl, <<"https:", "/", "/", "my">> }

\* SettingsManager.getR2Settings()
getR2Settings(st) == [r2AccessKeyId |-> st.r2AccessKeyId, r2Bucket |-> st.r2Bucket]

\* R2Adapter.updateSettings(settings): the settings are stored and the client
\* is built anew, or set to null without credentials
updateSettings(r2) ==
  [client |-> r2.r2AccessKeyId # <<>>, bucket |-> r2.r2Bucket # <<>>,
   settings |-> r2]

InitPropagate ==
  /\ settings \in [r2AccessKeyId : PrKeyIds, r2Bucket : PrBuckets,
                   uploadPathPattern : {uploadPathPattern},
                   publicBaseUrl : {publicBaseUrl}]
  /\ adapter = updateSettings(getR2Settings(settings))
  /\ doc = <<>> /\ cursor = <<0, 0>>
  /\ host = [cfg |-> <<>>, file |-> NoFile]
  /\ files = <<>> /\ folders = {}
  /\ sv = SvIdle /\ rw = RwIdle
  /\ WfIdle

\* the settings tab: SettingsManager.update(key, value) for a storage setting;
\* the notification of the plugin is then pending
StorageUpdate ==
  /\ pc \in {"idle", "changed"}
  /\ \/ \E v \in PrKeyIds   : settings' = [settings EXCEPT !.r2AccessKeyId = v]
     \/ \E v \in PrBuckets  : settings' = [settings EXCEPT !.r2Bucket = v]
     \/ \E v \in PrPatterns : settings' = [settings EXCEPT !.uploadPathPattern = v]
     \/ \E v \in PrBases    : settings' = [settings EXCEPT !.publicBaseUrl = v]
  /\ settings' # settings
  /\ pc' = "changed"
  /\ UNCHANGED <<vaultVars, editorVars, adapter, batch, idx, loc, log, clock,
                 remote, sv, rw>>

\* OneStepUploaderPlugin.onR2SettingsChange()
onR2SettingsChange ==
  /\ pc = "changed"
  /\ adapter' = updateSettings(getR2Settings(settings))
  /\ pc' = "idle"
  /\ UNCHANGED <<vaultVars, editorVars, settings, batch, idx, loc, log, clock,
                 remote, sv, rw>>

\* MediaRepository.upload(buffer, fileName, format) up to the call of the
\* storage client: log holds the last upload and what it was made with
upload ==
  /\ idx < MaxBatch
  /\ idx' = idx + 1
  /\ \E fileName \in PrNames :
       IF ~isConfigured
       THEN /\ log' = <<<<idx + 1, "upload_fail", <<>>>>>>
            /\ UNCHANGED remote
       ELSE LET key == generateKey(fileName)
                url == constructPublicUrl(key) IN
            /\ log' = <<<<idx + 1, "put",
                          [r2Bucket |-> adapter.settings.r2Bucket,
                           r2AccessKeyId |-> adapter.settings.r2AccessKeyId,
                           key |-> key, url |-> url]>>>>
            /\ remote' = [k \in DOMAIN remote \cup {key} |->
                            IF k = key THEN idx + 1 ELSE remote[k]]
  /\ UNCHANGED <<vaultVars, editorVars, cfgVars, batch, pc, loc, clock, sv, rw>>

NextPropagate == StorageUpdate \/ onR2SettingsChange \/ upload

SpecPropagate == InitPropagate /\ [][NextPropagate]_vars

\* C15: an upload started when the notification has run after the last change
\* of the storage settings is made with the current credentials and bucket,
\* and its key and URL follow the current path pattern and public base URL.
C15_UploadUsesCurrentSettings ==
  [][ (idx' = idx + 1 /\ pc = "idle")
      => IF settings.r2AccessKeyId = <<>> \/ settings.r2Bucket = <<>>
         THEN log'[1][2] = "upload_fail"
         ELSE /\ log'[1][2] = "put"
              /\ \E fileName \in PrNames :
                   LET key == generateKeyAt(settings.uploadPathPattern, Today,
                                            fileName) IN
                   log'[1][3] =
                     [r2Bucket |-> settings.r2Bucket,
                      r2AccessKeyId |-> settings.r2AccessKeyId,
                      key |-> key,
                      url |-> constructPublicUrlOn(settings.publicBaseUrl, key)]
    ]_vars

----------------------------------------------------------------------------
\* ImageUtils.calculateDimensions. Its numbers are IEEE-754 doubles: a
\* positive double is [m, e] with m its 53 mantissa bits, the leading 1
\* first, and e the exponent of that leading bit: the value is
\* (m as an integer) * 2^(e - 52)

MantissaBits == 53

\* the bits of a non-negative integer, most significant first
RECURSIVE BitsOf(_)
BitsOf(n) == IF n = 0 THEN <<>> ELSE BitsOf(n \div 2) \o <<n % 2>>

\* the integer a bit sequence stands for
RECURSIVE IntOf(_)
IntOf(bs) == IF bs = <<>> THEN 0
             ELSE 2 * IntOf(SubSeq(bs, 1, Len(bs) - 1)) + bs[Len(bs)]

\* bs + 1, one bit longer when the carry runs through
RECURSIVE Increment(_)
Increment(bs) ==
  IF bs = <<>> THEN <<1>>
  ELSE IF bs[Len(bs)] = 0 THEN SubSeq(bs, 1, Len(bs) - 1) \o <<1>>
  ELSE Increment(SubSeq(bs, 1, Len(bs) - 1)) \o <<0>>

\* round to nearest, ties to even: bs are the leading MantissaBits bits of an
\* exact value whose leading bit has exponent e, half tells how the rest
\* compares with half a unit of the last bit: -1 below, 0 equal, 1 above
RoundToDouble(bs, e, half) ==
  IF half = 1 \/ (half = 0 /\ bs[Len(bs)] = 1)
  THEN LET up == Increment(bs) IN
       IF Len(up) > MantissaBits
       THEN [m |-> SubSeq(up, 1, MantissaBits), e |-> e + 1]
       ELSE [m |-> up, e |-> e]
  ELSE [m |-> bs, e |-> e]

\* long division of rem / d (rem < d), n more quotient bits appended to
\* bits: <<quotient bits, remainder>>
RECURSIVE DivBits(_, _, _, _)
DivBits(rem, d, n, bits) ==
  IF n = 0 THEN <<bits, rem>>
  ELSE IF 2 * rem >= d THEN DivBits(2 * rem - d, d, n - 1, bits \o <<1>>)
  ELSE DivBits(2 * rem, d, n - 1, bits \o <<0>>)

\* floor(log2(a / b)) for positive integers
RECURSIVE Log2Floor(_, _)
Log2Floor(a, b) ==
  IF a >= 2 * b THEN 1 + Log2Floor(a, 2 * b)
  ELSE IF a < b THEN Log2Floor(2 * a, b) - 1
  ELSE 0

Pow2(n) == IF n = 0 THEN 1 ELSE 2 * IntOf(<<1>> \o [k \in 1..(n - 1) |-> 0])

\* a / b in doubles, for positive integers a and b
fdiv(a, b) ==
  LET e  == Log2Floor(a, b)
      \* a2 / b2 = (a / b) / 2^e, in [1, 2)
      a2 == IF e < 0 THEN a * Pow2(0 - e) ELSE a
      b2 == IF e > 0 THEN b * Pow2(e) ELSE b
      q  == DivBits(a2 - b2, b2, MantissaBits - 1, <<1>>)
      r2 == 2 * q[2] IN
  RoundToDouble(q[1], e,
                IF r2 > b2 THEN 1 ELSE IF r2 = b2 THEN 0 ELSE -1)

\* bs[1..i] * c + carry for a bit sequence and a positive integer, the
\* bits already produced to the right in low: the bits of the product
RECURSIVE MulBits(_, _, _, _, _)
MulBits(bs, i, c, carry, low) ==
  IF i = 0 THEN BitsOf(carry) \o low
  ELSE IF (bs[i] * c + carry) % 2 = 1
  THEN MulBits(bs, i - 1, c, (bs[i] * c + carry) \div 2, <<1>> \o low)
  ELSE MulBits(bs, i - 1, c, (bs[i] * c + carry) \div 2, <<0>> \o low)

\* c * x in doubles, for a positive integer c and a positive double x
fmul(c, x) ==
  LET p    == MulBits(x.m, Len(x.m), c, 0, <<>>)
      more == Len(p) - MantissaBits
      tail == SubSeq(p, MantissaBits + 1, Len(p))
      half == IF more = 0 THEN -1
              ELSE IF tail[1] = 0 THEN -1
              ELSE IF \E k \in 2..more : tail[k] = 1 THEN 1 ELSE 0 IN
  RoundToDouble(SubSeq(p, 1, MantissaBits), x.e + more, half)

\* Math.round(x) for a positive double below 2^52: the nearest integer, a
\* half going up
mathRound(x) ==
  IF x.e < -1 THEN 0
  ELSE IF x.e = -1 THEN 1
  ELSE IntOf(SubSeq(x.m, 1, x.e + 1)) + x.m[x.e + 2]

\* calculateDimensions as it would scale up: the width pass runs for every
\* positive maxWidth
MutcalculateDimensions(originalWidth, originalHeight, maxWidth, maxHeight) ==
  IF maxWidth = 0 /\ maxHeight = 0
  THEN [width |-> originalWidth, height |-> originalHeight]
  ELSE LET byWidth  == maxWidth > 0
           width1   == IF byWidth THEN maxWidth ELSE originalWidth
           height1  == IF byWidth
                       THEN mathRound(fmul(originalHeight,
                                           fdiv(maxWidth, originalWidth)))
                       ELSE originalHeight
           byHeight == maxHeight > 0 /\ height1 > maxHeight IN
       [width  |-> IF byHeight
                   THEN mathRound(fmul(width1, fdiv(maxHeight, height1)))
                   ELSE width1,
        height |-> IF byHeight THEN maxHeight ELSE height1]

\* width1, height1 are the locals width and height after the width pass
calculateDimensions(originalWidth, originalHeight, maxWidth, maxHeight) ==
  IF maxWidth = 0 /\ maxHeight = 0
  THEN [width |-> originalWidth, height |-> originalHeight]
  ELSE LET byWidth  == maxWidth > 0 /\ originalWidth > maxWidth
           width1   == IF byWidth THEN maxWidth ELSE originalWidth
           height1  == IF byWidth
                       THEN mathRound(fmul(originalHeight,
                                           fdiv(maxWidth, originalWidth)))
                       ELSE originalHeight
           byHeight == maxHeight > 0 /\ height1 > maxHeight IN
       [width  |-> IF byHeight
                   THEN mathRound(fmul(width1, fdiv(maxHeight, height1)))
                   ELSE width1,
        height |-> IF byHeight THEN maxHeight ELSE height1]

----------------------------------------------------------------------------
\* SpecDims: ImageProcessor.process from the loaded bitmap to the target
\* dimensions, for bitmaps and limits drawn from small sets and for the
\* default limits with a 4000x3000 bitmap

MaxDim == 11   \* widest bitmap of the grid; heights go to twice, limits to
               \* four more

DefaultMax == [maxWidth |-> 1920, maxHeight |-> 1080]

DimInputs ==
  { [originalWidth |-> w, originalHeight |-> h,
     maxWidth |-> mw, maxHeight |-> mh] :
      w \in 1..MaxDim, h \in 1..(2 * MaxDim),
      mw \in 0..(MaxDim + 4), mh \in 0..(MaxDim + 4) }
  \cup { [originalWidth |-> 4000, originalHeight |-> 3000,
          maxWidth |-> DefaultMax.maxWidth,
          maxHeight |-> DefaultMax.maxHeight] }

InitDims ==
  /\ \E in \in DimInputs : loc = [in |-> in, target |-> <<>>]
  /\ pc = "loaded"
  /\ batch = <<>> /\ idx = 0 /\ log = <<>> /\ clock = 0 /\ remote = <<>>
  /\ files = <<>> /\ folders = {}
  /\ host = [cfg |-> <<>>, file |-> NoFile]
  /\ EditorIdle /\ CfgIdle
  /\ sv = SvIdle /\ rw = RwIdle

\* step 2 of process: the target dimensions of the canvas
Resize ==
  /\ pc = "loaded"
  /\ loc' = [loc EXCEPT !.target =
                calculateDimensions(loc.in.originalWidth,
                                    loc.in.originalHeight,
                                    loc.in.maxWidth, loc.in.maxHeight)]
  /\ pc' = "sized"
  /\ UNCHANGED <<vaultVars, editorVars, cfgVars, batch, idx, log, clock,
                 remote, sv, rw>>

NextDims == Resize

SpecDims == InitDims /\ [][NextDims]_vars

\* C16: calculateDimensions equals the two-pass reference computed in exact
\* arithmetic with round(h*maxW/w) and round(width*maxH/height), a half
\* going up.
C16_TwoPassReference ==
  LET RoundHalfUp(n, d) == (2 * n + d) \div (2 * d)
      w    == loc.in.originalWidth
      h    == loc.in.originalHeight
      maxW == loc.in.maxWidth
      maxH == loc.in.maxHeight
      first == IF maxW > 0 /\ w > maxW
               THEN [width |-> maxW, height |-> RoundHalfUp(h * maxW, w)]
               ELSE [width |-> w, height |-> h]
      reference ==
        IF maxW = 0 /\ maxH = 0 THEN [width |-> w, height |-> h]
        ELSE IF maxH > 0 /\ first.height > maxH
        THEN [width  |-> RoundHalfUp(first.width * maxH, first.height),
              height |-> maxH]
        ELSE first IN
  pc = "sized" => loc.target = reference

\* C17: calculateDimensions never scales up and stays inside the box: the
\* target is no wider and no taller than the bitmap, no wider than a positive
\* maxWidth and no taller than a positive maxHeight.
C17_NeverUpInsideBox ==
  pc = "sized"
  => /\ loc.target.width <= loc.in.originalWidth
     /\ loc.target.height <= loc.in.originalHeight
     /\ loc.in.maxWidth > 0 => loc.target.width <= loc.in.maxWidth
     /\ loc.in.maxHeight > 0 => loc.target.height <= loc.in.maxHeight

\* a bitmap wider than maxWidth whose height still exceeds maxHeight after
\* the width pass: both passes ran
C17_Witness ==
  /\ pc = "sized"
  /\ loc.in.maxWidth > 0 /\ loc.in.originalWidth > loc.in.maxWidth
  /\ loc.in.maxHeight > 0
  /\ loc.target.height = loc.in.maxHeight
  /\ loc.target.width < loc.in.maxWidth
  /\ loc.target.width >= 1

----------------------------------------------------------------------------
\* SpecKey: MediaRepository.generateKey alone, for path patterns, dates and
\* file names drawn from small sets

KeyPatterns ==
  { <<>>,
    <<"i", "m", "a", "g", "e", "s", "/", "{year}", "/", "{month}">>,
    <<"{year}", "/", "{month}", "/", "{day}">>,
    <<"/", "u", "/">>,
    <<"/", "/">>,
    <<"u", "/", "/", "{day}", "/", "/">>,
    <<"{month}", "-", "{day}">>,
    <<"{year}", "/", "{year}", "-", "{month}">>,
    <<"{day}", "{day}">>,
    <<"u">> }

\* new Date(): getMonth() counts from 0
KeyDates ==
  { [fullYear |-> 2025, month |-> m, date |-> d] :
      m \in {0, 8, 9, 11}, d \in {1, 9, 10, 19, 31} }

KeyFileNames == { <<"i", "m", "g", ".", "png">>, <<"a", ".", "pdf">> }

InitKey ==
  /\ \E p \in KeyPatterns, now \in KeyDates, f \in KeyFileNames :
       loc = [pattern |-> p, now |-> now, fileName |-> f, key |-> <<>>]
  /\ pc = "key_call"
  /\ batch = <<>> /\ idx = 0 /\ log = <<>> /\ clock = 0 /\ remote = <<>>
  /\ files = <<>> /\ folders = {}
  /\ host = [cfg |-> <<>>, file |-> NoFile]
  /\ EditorIdle /\ CfgIdle
  /\ sv = SvIdle /\ rw = RwIdle

\* const key = this.generateKey(file.name)
GenerateKey ==
  /\ pc = "key_call"
  /\ loc' = [loc EXCEPT !.key = generateKeyAt(loc.pattern, loc.now,
                                              loc.fileName)]
  /\ pc' = "key_done"
  /\ UNCHANGED <<vaultVars, editorVars, cfgVars, batch, idx, log, clock,
                 remote, sv, rw>>

NextKey == GenerateKey

SpecKey == InitKey /\ [][NextKey]_vars

\* C18: the key is the path pattern with every {year}, {month} and {day}
\* token replaced by the date (month and day in two digits), without leading
\* or trailing slashes, then exactly one slash, then the file name; it is the
\* bare file name when the pattern is empty, and it never starts with a
\* slash; images/{year}/{month} on 2025-12-19 with img.png gives
\* images/2025/12/img.png.
C18_KeyFromPattern ==
  LET TwoDigits(n) == <<NumToStr(n \div 10)[1], NumToStr(n % 10)[1]>>
      Value(c) == IF c = "{year}" THEN NumToStr(loc.now.fullYear)
                  ELSE IF c = "{month}" THEN TwoDigits(loc.now.month + 1)
                  ELSE IF c = "{day}" THEN TwoDigits(loc.now.date)
                  ELSE <<c>>
      Substituted[k \in 0..Len(loc.pattern)] ==
        IF k = 0 THEN <<>>
        ELSE Substituted[k - 1] \o Value(loc.pattern[k])
      path == StripSlashes(Substituted[Len(loc.pattern)]) IN
  pc = "key_done"
  => /\ loc.key = IF path = <<>> THEN loc.fileName
                  ELSE path \o <<"/">> \o loc.fileName
     /\ loc.pattern = <<>> => loc.key = loc.fileName
     /\ Head(loc.key) # "/"
     /\ (  /\ loc.pattern = <<"i", "m", "a", "g", "e", "s", "/", "{year}",
                              "/", "{month}">>
           /\ loc.now = [fullYear |-> 2025, month |-> 11, date |-> 19]
           /\ loc.fileName = <<"i", "m", "g", ".", "png">> )
        => loc.key = <<"i", "m", "a", "g", "e", "s", "/", "2", "0", "2", "5",
                       "/", "1", "2", "/", "i", "m", "g", ".", "png">>

----------------------------------------------------------------------------
\* Logger.sanitizeMessage. A message is a sequence of pieces: a piece is a
\* word, one separator character, an access key id (AKIA and 16 characters)
\* or a secret of 43 characters of [A-Za-z0-9/+=]

AccessKeyPiece == "AKIA0123456789ABCDEF"
LongRunPiece   == "wJalrXUtnFEMIK7MDENGbPxRfiCYEXAMPLEKEYwJalr"
Keywords       == {"secret", "password", "token", "key"}
Words          == {"Access", "Denied"}
Whitespace     == {" ", "\n"}

\* the pieces made of characters of [A-Za-z0-9/+=] only, and the number of
\* characters of a piece
ClassPieces == Keywords \cup Words \cup {"=", "AKIA", LongRunPiece}

PieceLen(a) ==
  IF a = LongRunPiece THEN 43
  ELSE IF a = "password" THEN 8
  ELSE IF a \in Words \cup {"secret"} THEN 6
  ELSE IF a = "token" THEN 5
  ELSE IF a = "AKIA" THEN 4
  ELSE IF a = "key" THEN 3
  ELSE 1

\* .replace(/AKIA[0-9A-Z]{16}/gi, "AKIA***************")
RECURSIVE MaskAccessKeys(_, _, _)
MaskAccessKeys(m, i, out) ==
  IF i > Len(m) THEN out
  ELSE IF m[i] = AccessKeyPiece
  THEN MaskAccessKeys(m, i + 1, out \o <<"AKIA", "***************">>)
  ELSE MaskAccessKeys(m, i + 1, out \o <<m[i]>>)

\* the last piece of the longest run of pieces in set that starts at i,
\* i - 1 when m[i] is not in set
RECURSIVE RunEnd(_, _, _)
RunEnd(m, i, set) ==
  IF i <= Len(m) /\ m[i] \in set THEN RunEnd(m, i + 1, set) ELSE i - 1

RECURSIVE RunLen(_, _, _)
RunLen(m, i, e) == IF i > e THEN 0 ELSE PieceLen(m[i]) + RunLen(m, i + 1, e)

\* .replace(/[A-Za-z0-9/+=]{40,}/g, "***REDACTED***") from piece i on
RECURSIVE MaskLongRuns(_, _, _)
MaskLongRuns(m, i, out) ==
  IF i > Len(m) THEN out
  ELSE IF m[i] \notin ClassPieces THEN MaskLongRuns(m, i + 1, out \o <<m[i]>>)
  ELSE IF RunLen(m, i, RunEnd(m, i, ClassPieces)) >= 40
  THEN MaskLongRuns(m, RunEnd(m, i, ClassPieces) + 1,
                    out \o <<"***REDACTED***">>)
  ELSE MaskLongRuns(m, RunEnd(m, i, ClassPieces) + 1,
                    out \o SubSeq(m, i, RunEnd(m, i, ClassPieces)))

\* [\s:=]+[^\s&]+ tried behind a keyword at position i: <<first, last>>
\* piece of the value, <<0, 0>> when it does not match. The separators are
\* taken greedily; when no value follows them the engine gives back
\* separators until the value can start with a ":" or a "="
ValueSpan(m, i) ==
  LET isValue(a) == a \notin Whitespace \cup {"&"}
      sepEnd == RunEnd(m, i + 1, Whitespace \cup {":", "="})
      starts == {v \in (i + 2)..(sepEnd + 1) : v <= Len(m) /\ isValue(m[v])} IN
  IF sepEnd < i + 1 \/ starts = {} THEN <<0, 0>>
  ELSE LET v == Max(starts) IN
       <<v, RunEnd(m, v, {m[k] : k \in {j \in DOMAIN m : isValue(m[j])}})>>

\* .replace(/(secret|password|token|key)[\s:=]+[^\s&]+/gi,
\*          "$1=***REDACTED***") from piece i on
RECURSIVE MaskValues(_, _, _)
MaskValues(m, i, out) ==
  IF i > Len(m) THEN out
  ELSE IF m[i] \in Keywords /\ ValueSpan(m, i)[1] # 0
  THEN MaskValues(m, ValueSpan(m, i)[2] + 1,
                  out \o <<m[i], "=", "***REDACTED***">>)
  ELSE MaskValues(m, i + 1, out \o <<m[i]>>)

\* Logger.sanitizeMessage(message)
sanitizeMessage(message) ==
  MaskValues(MaskLongRuns(MaskAccessKeys(message, 1, <<>>), 1, <<>>), 1, <<>>)

\* Logger.sanitizeObject(obj) for an object without nested objects: obj is a
\* function from its keys to its values; the values under other keys are
\* copied as they are
sanitizeObject(obj) ==
  [k \in DOMAIN obj |->
     IF k \in {"accessKeyId", "secretAccessKey", "password", "token", "key",
               "secret"}
     THEN <<"***REDACTED***">> ELSE obj[k]]

----------------------------------------------------------------------------
\* SpecNotice: a transfer that fails, from the rejection of upload.done() in
\* R2Adapter.put to the notice of the workflow; log holds what the console
\* and the user get to see of the error text: raw is the text the entry was
\* built from, shown the text in the entry

MaxPieces == 3   \* pieces of an error message

ErrorPieces == {"Denied", " ", "key", "=", AccessKeyPiece, LongRunPiece}

ErrorMessages == UNION {[1..n -> ErrorPieces] : n \in 1..MaxPieces}

InitNotice ==
  /\ \E m \in ErrorMessages, isError \in BOOLEAN, isImage \in BOOLEAN :
       loc = [thrown |-> [isError |-> isError, message |-> m],
              isImage |-> isImage,
              result |-> [success |-> <<>>, error |-> <<>>]]
  /\ pc = "transfer"
  /\ log = <<>>
  /\ batch = <<>> /\ idx = 0 /\ clock = 0 /\ remote = <<>>
  /\ files = <<>> /\ folders = {}
  /\ host = [cfg |-> <<>>, file |-> NoFile]
  /\ EditorIdle /\ CfgIdle
  /\ sv = SvIdle /\ rw = RwIdle

\* the catch block of R2Adapter.put, and the return through
\* MediaRepository.upload: logger.error("R2 upload failed", error) shows the
\* sanitized message of an Error, and a thrown string as it is
PutCatch ==
  /\ pc = "transfer"
  /\ log' = Append(log,
              [sink |-> "console", raw |-> loc.thrown.message,
               shown |-> IF loc.thrown.isError
                         THEN sanitizeMessage(loc.thrown.message)
                         ELSE loc.thrown.message])
  /\ loc' = [loc EXCEPT !.result =
                [success |-> <<"false">>,
                 error   |-> IF loc.thrown.isError THEN loc.thrown.message
                             ELSE <<"Unknown", " ", "error">>]]
  /\ pc' = "result"
  /\ UNCHANGED <<vaultVars, editorVars, cfgVars, batch, idx, clock, remote,
                 sv, rw>>

\* the workflow with the failure result: the generic workflow logs the
\* result, both show the notice "upload failed: <result.error>. Kept local."
FailureNotice ==
  /\ pc = "result"
  /\ LET entry(sink, text) ==
           IF loc.thrown.isError
           THEN <<[sink |-> sink, raw |-> loc.thrown.message, shown |-> text]>>
           ELSE <<>> IN
     log' = log
            \o (IF loc.isImage THEN <<>>
                ELSE entry("console", sanitizeObject(loc.result).error))
            \o entry("notice", loc.result.error)
  /\ pc' = "done"
  /\ UNCHANGED <<vaultVars, editorVars, cfgVars, batch, idx, loc, clock,
                 remote, sv, rw>>

NextNotice == PutCatch \/ FailureNotice

SpecNotice == InitNotice /\ [][NextNotice]_vars

\* C21: every error text in a log entry or in a notice has passed through
\* the redaction filter: what is shown is sanitizeMessage of the text the
\* storage client gave.
C21_ErrorsSanitized ==
  \A k \in DOMAIN log : log[k].shown = sanitizeMessage(log[k].raw)

-----------------------------------------------------------------------------
\* retryWithBackoff (generalUtils.ts; utils.ts holds the same code): the
\* loop, with the calls made, the rejections caught and the delays slept

MaxRetries == 3   \* largest maxRetries the helper is called with

RetryDelays == {1, 1000}          \* initialDelay; 1000 is the default

FnValues == {"v1", "v2"}          \* what fn may resolve with

\* what fn may reject with: an Error object, or a value that is not one
FnErrors == [isError : BOOLEAN, message : {"e1", "e2"}]

RetryIdle == [maxRetries |-> 0, initialDelay |-> 0, attempt |-> 0,
              calls |-> 0, rejections |-> <<>>, slept |-> <<>>,
              lastError |-> <<>>, outcome |-> <<>>]

InitRetry ==
  /\ \E n \in 0..MaxRetries, d \in RetryDelays :
       loc = [RetryIdle EXCEPT !.maxRetries = n, !.initialDelay = d]
  /\ pc = "loop"
  /\ log = <<>>
  /\ batch = <<>> /\ idx = 0 /\ clock = 0 /\ remote = <<>>
  /\ files = <<>> /\ folders = {}
  /\ host = [cfg |-> <<>>, file |-> NoFile]
  /\ EditorIdle /\ CfgIdle
  /\ sv = SvIdle /\ rw = RwIdle

RetryFrame == UNCHANGED <<vaultVars, editorVars, cfgVars, batch, idx, log,
                          clock, remote, sv, rw>>

\* the loop test attempt < maxRetries: the next call of fn, or past the
\* loop, throw lastError || new Error("All retry attempts failed")
RetryLoop ==
  /\ pc = "loop"
  /\ IF loc.attempt < loc.maxRetries
     THEN /\ loc' = [loc EXCEPT !.calls = @ + 1]
          /\ pc' = "fn"
     ELSE /\ loc' = [loc EXCEPT !.outcome =
                       [kind |-> "thrown",
                        value |-> IF loc.lastError # <<>> THEN loc.lastError
                                  ELSE [isError |-> TRUE,
                                        message |-> "All retry attempts failed"]]]
          /\ pc' = "thrown"
  /\ RetryFrame

\* return await fn(), fn resolving
FnResolves ==
  /\ pc = "fn"
  /\ \E v \in FnValues :
       loc' = [loc EXCEPT !.outcome = [kind |-> "returned", value |-> v]]
  /\ pc' = "returned"
  /\ RetryFrame

\* a catch block that sleeps after every rejection, the last one too
MutFnRejects ==
  /\ pc = "fn"
  /\ \E e \in FnErrors :
       loc' = [loc EXCEPT
                 !.rejections = Append(@, e),
                 !.lastError = [isError |-> TRUE, message |-> e.message],
                 !.slept = Append(@, loc.initialDelay * Pow2(loc.attempt))]
  /\ pc' = "sleep"
  /\ RetryFrame

\* fn rejecting, and the catch block: lastError is the error, wrapped in an
\* Error when it is not one; before the last attempt the helper starts to
\* sleep initialDelay * Math.pow(2, attempt)
FnRejects ==
  /\ pc = "fn"
  /\ \E e \in FnErrors :
       LET caught == [loc EXCEPT
                        !.rejections = Append(@, e),
                        !.lastError = [isError |-> TRUE,
                                       message |-> e.message]] IN
       IF loc.attempt < loc.maxRetries - 1
       THEN /\ loc' = [caught EXCEPT
                         !.slept = Append(@, loc.initialDelay
                                               * Pow2(loc.attempt))]
            /\ pc' = "sleep"
       ELSE /\ loc' = [caught EXCEPT !.attempt = @ + 1]
            /\ pc' = "loop"
  /\ RetryFrame

\* await sleep(delay) is over: attempt++
SleepDone ==
  /\ pc = "sleep"
  /\ loc' = [loc EXCEPT !.attempt = @ + 1]
  /\ pc' = "loop"
  /\ RetryFrame

NextRetry == RetryLoop \/ FnResolves \/ FnRejects \/ SleepDone

SpecRetry == InitRetry /\ [][NextRetry]_vars

\* C24: retryWithBackoff calls fn at most maxRetries times; it returns at the
\* first call that resolves, with that call's value, so every call before
\* it was rejected; after the k-th rejection (k from 0) it sleeps
\* initialDelay * 2^k, except after rejection number maxRetries - 1; and it
\* throws only when maxRetries calls were all rejected, an error carrying
\* the message of the last rejection.
C24_RetryWithBackoff ==
  /\ loc.calls <= loc.maxRetries
  /\ Len(loc.rejections) <= loc.calls
  /\ Len(loc.slept) = Min({Len(loc.rejections), Max({loc.maxRetries - 1, 0})})
  /\ \A k \in DOMAIN loc.slept : loc.slept[k] = loc.initialDelay * (2 ^ (k - 1))
  /\ pc = "returned" =>
       /\ loc.calls = Len(loc.rejections) + 1
       /\ loc.outcome.kind = "returned" /\ loc.outcome.value \in FnValues
  /\ pc = "thrown" =>
       /\ loc.calls = loc.maxRetries
       /\ Len(loc.rejections) = loc.maxRetries
       /\ loc.outcome.kind = "thrown"
       /\ loc.maxRetries >= 1 =>
            loc.outcome.value.message
              = loc.rejections[loc.maxRetries].message
  /\ pc \in {"loop", "fn", "sleep"} => loc.outcome = <<>>

\* all calls were rejected, the helper slept between them and has thrown
C24_Witness ==
  /\ pc = "thrown"
  /\ loc.maxRetries = MaxRetries
  /\ Len(loc.slept) = MaxRetries - 1
  /\ loc.rejections[1].message # loc.rejections[MaxRetries].message

-----------------------------------------------------------------------------
\* MarkdownLinkRewriter

\* the global pattern createImagePattern(imagePath) builds,
\*   !\[[^\]]*\]\([^)]*<imagePath, escaped>[^)]*\)
\* tried at position i of s: the link pattern with the "!" mandatory
ImageMatchEnd(s, imagePath, i) ==
  IF i <= Len(s) /\ s[i] = "!" THEN LinkMatchEnd(s, imagePath, i) ELSE 0

\* content.replace(imagePattern, newMarkdown) from position i on
RECURSIVE ReplaceImagesFrom(_, _, _, _)
ReplaceImagesFrom(s, imagePath, newMarkdown, i) ==
  IF i > Len(s) THEN <<>>
  ELSE LET e == ImageMatchEnd(s, imagePath, i) IN
       IF e = 0 THEN <<s[i]>> \o ReplaceImagesFrom(s, imagePath, newMarkdown, i + 1)
       ELSE newMarkdown \o ReplaceImagesFrom(s, imagePath, newMarkdown, e + 1)

\* MarkdownLinkRewriter.replaceImageLink(editor, oldPath, newUrl): the editor
\* afterwards and the value returned
replaceImageLink(content, pos, oldPath, newUrl) ==
  IF ~\E i \in 1..Len(content) : ImageMatchEnd(content, oldPath, i) # 0
  THEN [doc |-> content, cursor |-> pos, ret |-> FALSE]
  ELSE LET newMarkdown == <<"!", "[", "]", "(">> \o newUrl \o <<")">>
           newContent  == ReplaceImagesFrom(content, oldPath, newMarkdown, 1) IN
       [doc |-> newContent, cursor |-> ClipPos(newContent, pos), ret |-> TRUE]

-----------------------------------------------------------------------------
\* R2Uploader.uploadWithRetry under uploadAndReplace: the local file is
\* written and its link inserted; uploadWithRetry hands upload() to
\* retryWithBackoff; upload() races the transfer against a timer

UploadPath == <<"a", ".", "png">>
UploadKey  == <<"k", ".", "png">>
UploadUrl  == <<"https:", "/", "/", "cdn", "/">> \o UploadKey

TimeoutSettings == {5, 30}

\* the document when the upload starts: the inserted link, the link with an
\* alt text and a line typed before it, or nothing (the user removed it)
UploadDocs ==
  { formatLink(UploadPath, <<>>, TRUE) \o <<"\n">>,
    <<"x", "\n">> \o formatLink(UploadPath, <<"t">>, TRUE) \o <<"\n">>,
    <<>> }

TimeoutError(seconds) == <<"Upload timeout after ", seconds, " seconds">>

InitUpload ==
  /\ \E n \in 1..MaxRetries, t \in TimeoutSettings :
       loc = [maxRetries |-> n, initialDelay |-> 1000, attempt |-> 0,
              calls |-> 0, rejections |-> <<>>, slept |-> <<>>,
              lastError |-> <<>>, outcome |-> <<>>,
              timeoutSeconds |-> t, localPath |-> UploadPath,
              key |-> UploadKey, transfer |-> "none", timer |-> "none",
              results |-> <<>>, result |-> <<>>]
  /\ pc = "loop"
  /\ doc \in UploadDocs
  /\ cursor = <<NewlinesBefore(doc, Len(doc)), 0>>
  /\ files = (UploadPath :> 0)
  /\ folders = {}
  /\ host = [cfg |-> <<>>, file |-> NoFile]
  /\ \E d \in BOOLEAN :
       settings = [NoSettings EXCEPT !.enableUpload = TRUE,
                                     !.deleteLocalAfterUpload = d]
  /\ adapter = [client |-> TRUE, bucket |-> TRUE]
  /\ log = <<>>
  /\ batch = <<>> /\ idx = 0 /\ clock = 0 /\ remote = <<>>
  /\ sv = SvIdle /\ rw = RwIdle

\* upload() yielded result from the locals lc: retryWithBackoff returns it,
\* uploadWithRetry returns it, and uploadAndReplace goes on up to its next
\* await
UploadReturns(lc, result) ==
  /\ loc' = [lc EXCEPT !.results = Append(@, result), !.result = result,
                       !.outcome = [kind |-> "returned", value |-> result]]
  /\ IF result.success /\ result.url # <<>>
     THEN LET r == replaceImageLink(doc, cursor, loc.localPath, result.url) IN
          /\ doc' = r.doc
          /\ cursor' = r.cursor
          /\ IF r.ret
             THEN /\ log' = Ev(log, "rewritten")
                  /\ pc' = IF settings.deleteLocalAfterUpload
                           THEN "del_exists" ELSE "done"
             ELSE /\ log' = Ev(log, "notice_link_not_updated")
                  /\ pc' = "done"
     ELSE /\ log' = Ev(log, "notice_upload_failed")
          /\ pc' = "done"
          /\ UNCHANGED <<doc, cursor>>

\* upload() up to await Promise.race: without a client it returns the
\* failure at once; otherwise the transfer starts and the timer is set
StartUpload ==
  /\ pc = "fn"
  /\ IF ~adapter.client
     THEN UploadReturns(loc, [success |-> FALSE, url |-> <<>>,
                              error |-> <<"R2 client not initialized">>])
     ELSE /\ loc' = [loc EXCEPT !.transfer = "pending", !.timer = "armed"]
          /\ pc' = "race"
          /\ UNCHANGED <<doc, cursor, log>>
  /\ UNCHANGED <<vaultVars, cfgVars, batch, idx, clock, remote, sv, rw>>

\* a transfer whose completion is acted on whenever it comes
MutUploadDone ==
  /\ loc.transfer = "pending"
  /\ remote' = [k \in DOMAIN remote \cup {loc.key} |->
                  IF k = loc.key THEN idx ELSE remote[k]]
  /\ UploadReturns([loc EXCEPT !.transfer = "done"],
                   [success |-> TRUE, url |-> UploadUrl, error |-> <<>>])
  /\ UNCHANGED <<vaultVars, cfgVars, batch, idx, clock, sv, rw>>

\* upload.done() resolves: the object is stored; when the race is still
\* open upload() returns the success result
UploadDone ==
  /\ loc.transfer = "pending"
  /\ remote' = [k \in DOMAIN remote \cup {loc.key} |->
                  IF k = loc.key THEN idx ELSE remote[k]]
  /\ IF pc = "race"
     THEN UploadReturns([loc EXCEPT !.transfer = "done"],
                        [success |-> TRUE, url |-> UploadUrl, error |-> <<>>])
     ELSE /\ loc' = [loc EXCEPT !.transfer = "done"]
          /\ UNCHANGED <<doc, cursor, log, pc>>
  /\ UNCHANGED <<vaultVars, cfgVars, batch, idx, clock, sv, rw>>

\* upload.done() rejects: when the race is still open the catch block of
\* upload() returns the failure result
UploadRejected ==
  /\ loc.transfer = "pending"
  /\ IF pc = "race"
     THEN UploadReturns([loc EXCEPT !.transfer = "failed"],
                        [success |-> FALSE, url |-> <<>>,
                         error |-> <<"Network error">>])
     ELSE /\ loc' = [loc EXCEPT !.transfer = "failed"]
          /\ UNCHANGED <<doc, cursor, log, pc>>
  /\ UNCHANGED <<vaultVars, cfgVars, batch, idx, clock, remote, sv, rw>>

\* the setTimeout callback rejects timeoutPromise: when the race is still
\* open the catch block of upload() returns the timeout failure; the timer
\* is never cleared, so it also fires after the race is over
TimeoutFires ==
  /\ loc.timer = "armed"
  /\ IF pc = "race"
     THEN UploadReturns([loc EXCEPT !.timer = "fired"],
                        [success |-> FALSE, url |-> <<>>,
                         error |-> TimeoutError(loc.timeoutSeconds)])
     ELSE /\ loc' = [loc EXCEPT !.timer = "fired"]
          /\ UNCHANGED <<doc, cursor, log, pc>>
  /\ UNCHANGED <<vaultVars, cfgVars, batch, idx, clock, remote, sv, rw>>

NextUpload ==
  \/ RetryLoop \/ StartUpload \/ UploadDone \/ UploadRejected \/ TimeoutFires
  \/ DelExists \/ DelRemove

SpecUpload == InitUpload /\ [][NextUpload]_vars

\* C23: uploadWithRetry returns a failure result only after retryAttempts
\* failed attempts: while fewer attempts were made, a failed attempt is
\* followed by a backoff delay and another attempt.
C23_RetriesUntilExhausted ==
  (loc.result # <<>> /\ ~loc.result.success)
    => /\ loc.calls = loc.maxRetries
       /\ Len(loc.slept) = loc.maxRetries - 1

TimedOut ==
  /\ loc.results # <<>>
  /\ loc.results[1] = [success |-> FALSE, url |-> <<>>,
                       error |-> TimeoutError(loc.timeoutSeconds)]

\* C25: when the timer fires while the race is open, upload() yields the
\* timeout failure, its only result, and the workflow shows the failure
\* notice and ends with the document and the local file as they were; from
\* then on no step, a late completion of the transfer included, changes the
\* results, the document, the local files or the position of the workflow.
C25_TimeoutFallback ==
  /\ [](Len(loc.results) <= 1)
  /\ [][ /\ (pc = "race" /\ loc.timer = "armed" /\ loc'.timer = "fired")
            => /\ loc'.results = <<[success |-> FALSE, url |-> <<>>,
                                    error |-> TimeoutError(loc.timeoutSeconds)]>>
               /\ loc'.result = loc'.results[1]
               /\ pc' = "done"
               /\ doc' = doc /\ files' = files
               /\ log' = Ev(log, "notice_upload_failed")
         /\ TimedOut
            => /\ loc'.results = loc.results /\ loc'.result = loc.result
               /\ doc' = doc /\ files' = files /\ log' = log
               /\ pc' = pc /\ pc = "done" ]_vars

\* the timer won the race and the transfer completed afterwards: the link
\* still points to the local file, which is still there
C25_Witness ==
  /\ TimedOut
  /\ loc.transfer = "done"
  /\ UploadKey \in DOMAIN remote
  /\ doc \in UploadDocs /\ doc # <<>>
  /\ UploadPath \in DOMAIN files
  /\ settings.deleteLocalAfterUpload

-----------------------------------------------------------------------------
\* Two overlapping handle() invocations: the editor-paste and editor-drop
\* callbacks call handle without awaiting it, so a second workflow starts
\* while the first is suspended in localRepo.save. sv is the save of the
\* workflow that runs next, loc.suspended the save of the other one.

OverlapNames == { <<"a", ".", "pdf">>, <<"b", ".", "pdf">> }

OverlapRandoms == { RandomStr, <<"s">> }

OverlapDir == <<"attachments">>

InitOverlap ==
  /\ \E n1 \in OverlapNames, n2 \in OverlapNames, p \in BOOLEAN :
       /\ settings = [NoSettings EXCEPT !.preserveOriginalName = p]
       /\ loc = [names |-> <<n1, n2>>, suspended |-> SvIdle]
       /\ sv = [st |-> "ensure", dir |-> OverlapDir,
                fileName |-> uniqueFileName(n1, GenericExtension(n1), p, 1,
                                            RandomStr),
                finalPath |-> <<>>, counter |-> 0, content |-> 1,
                before |-> <<>>]
  /\ clock = 1
  /\ host = [cfg |-> <<>>, file |-> NoFile]
  /\ files = <<>>
  /\ folders \in {{}, {OverlapDir}}
  /\ adapter = NoAdapter
  /\ pc = "overlap"
  /\ log = <<>>
  /\ batch = <<>> /\ idx = 0 /\ remote = <<>>
  /\ EditorIdle
  /\ rw = RwIdle

\* the second event arrives while the first workflow is suspended: its
\* workflow runs up to the first await inside localRepo.save
SecondEvent ==
  /\ loc.suspended.st = "idle"
  /\ sv.st \in {"ensure", "mkdir", "check", "write"}
  /\ \E timestamp \in {t \in {clock, clock + 1} : t <= MaxClock},
        randomStr \in OverlapRandoms :
       LET name     == loc.names[2]
           fileName == uniqueFileName(name, GenericExtension(name),
                                      settings.preserveOriginalName,
                                      timestamp, randomStr) IN
       /\ clock' = timestamp
       /\ loc' = [loc EXCEPT !.suspended =
                    [SaveCall(fileName, 2) EXCEPT !.before = <<>>]]
  /\ UNCHANGED <<vaultVars, editorVars, cfgVars, batch, idx, pc, log, remote,
                 sv, rw>>

\* the event loop resumes the other workflow
Resumed ==
  /\ loc.suspended.st \in {"ensure", "mkdir", "check", "write"}
  /\ sv' = loc.suspended
  /\ loc' = [loc EXCEPT !.suspended = sv]
  /\ UNCHANGED <<vaultVars, editorVars, cfgVars, batch, idx, pc, log, clock,
                 remote, rw>>

NextOverlap ==
  SecondEvent \/ Resumed \/ SaveEnsure \/ SaveMkdir \/ SaveCheck \/ SaveWrite

SpecOverlap == InitOverlap /\ [][NextOverlap]_vars

\* C26: when the saves of two overlapping workflows have both returned, they
\* returned different paths, and each path holds what its workflow wrote.
C26_OverlappingSavesDistinct ==
  (pc = "overlap" /\ sv.st = "returned" /\ loc.suspended.st = "returned")
    => /\ sv.finalPath # loc.suspended.finalPath
       /\ files[sv.finalPath] = sv.content
       /\ files[loc.suspended.finalPath] = loc.suspended.content

-----------------------------------------------------------------------------
\* Remote keys of the items of one batch

\* C27: an upload never stores its object under a key that holds the object
\* of an earlier item saved under a different local path: when a step
\* replaces the object under a key, no local file written by the item that
\* stored it lies at a path other than the running item's local path.
C27_DistinctRemoteKeys ==
  [][ \A k \in DOMAIN remote :
        (k \in DOMAIN remote' /\ remote'[k] # remote[k])
          => ~\E p \in DOMAIN files :
                 files[p] = remote[k] /\ p # loc.localPath ]_vars

-----------------------------------------------------------------------------
\* A document with the references of two items of the generic workflow, each
\* named by generateUniqueFileName and saved by LocalRepository.save, and the
\* link rewrites of the two items

RefNames == { <<"a", ".", "pdf">>, <<"b", ".", "pdf">>,
              <<"a", "_", "2", ".", "pdf", ".", "pdf">> }

RefHosts ==
  { [cfg |-> <<>>, file |-> NoFile],
    [cfg |-> <<".", "/">>,
     file |-> [isNull |-> FALSE, hasParent |-> FALSE, parentPath |-> <<>>]] }

\* the path save returns for fileName when the paths in taken exist: the
\* plain path, or the first candidate of the loop
SavedPath(dir, fileName, taken) ==
  IF dir \o <<"/">> \o fileName \notin taken THEN dir \o <<"/">> \o fileName
  ELSE NextCandidate(dir, fileName, 1)

RefItem(name, fileName, localPath) ==
  [name |-> name, fileName |-> fileName, localPath |-> localPath,
   link |-> formatLink(localPath, name, FALSE),
   url |-> constructPublicUrl(generateKey(fileName)),
   rewritten |-> FALSE]

InitRefs ==
  /\ host \in RefHosts
  /\ \E n1 \in RefNames, n2 \in RefNames, t1 \in 1..MaxClock,
        t2 \in 1..MaxClock, p \in BOOLEAN :
       LET dir == getAttachmentFolder(host.cfg, host.file)
           f1  == generateUniqueFileName(n1, GenericExtension(n1), p, t1)
           f2  == generateUniqueFileName(n2, GenericExtension(n2), p, t2)
           p1  == SavedPath(dir, f1, {})
           p2  == SavedPath(dir, f2, {p1})
           i1  == RefItem(n1, f1, p1)
           i2  == RefItem(n2, f2, p2) IN
       /\ settings = [NoSettings EXCEPT !.enableUpload = TRUE,
                                        !.preserveOriginalName = p]
       /\ loc = [items |-> <<i1, i2>>]
       /\ files = (p1 :> 1) @@ (p2 :> 2)
       /\ doc = i1.link \o <<"\n">> \o i2.link \o <<"\n">>
  /\ cursor = <<2, 0>>
  /\ clock = MaxClock
  /\ folders = {}
  /\ adapter = [client |-> TRUE, bucket |-> TRUE]
  /\ pc = "refs"
  /\ log = <<>>
  /\ batch = <<>> /\ idx = 0 /\ remote = <<>>
  /\ sv = SvIdle /\ rw = RwIdle

\* the upload of item i succeeded: replaceLinkInEditor(editor, localPath, url)
RewriteItem ==
  /\ pc = "refs"
  /\ \E i \in 1..2 :
       /\ ~loc.items[i].rewritten
       /\ LET r == replaceLinkInEditor(doc, cursor, loc.items[i].localPath,
                                       loc.items[i].url) IN
          /\ doc' = r.doc
          /\ cursor' = r.cursor
          /\ log' = Append(log, <<i, r.notice>>)
       /\ loc' = [loc EXCEPT !.items[i].rewritten = TRUE]
  /\ UNCHANGED <<vaultVars, cfgVars, batch, idx, pc, clock, remote, sv, rw>>

NextRefs == RewriteItem

SpecRefs == InitRefs /\ [][NextRefs]_vars

\* C28: the rewrite of one item leaves the reference of the other item as
\* it was: while an item has not been rewritten, its line of the document is
\* the link that was inserted for it.
C28_OtherReferencesKept ==
  LET LineOf(s, line) ==
        SubSeq(s, LineStart(s, line) + 1,
               LineStart(s, line) + LineLength(s, line)) IN
  pc = "refs" =>
    /\ loc.items[1].localPath # loc.items[2].localPath
    /\ \A j \in 1..2 :
         ~loc.items[j].rewritten => LineOf(doc, j - 1) = loc.items[j].link

-----------------------------------------------------------------------------
\* The canvas ImageConvertProcessor.process sizes

\* C29: for an image of at least 1x1 and limits of at least 0, the target
\* calculateDimensions returns has a width of at least 1 and a height of at
\* least 1.
C29_TargetAtLeastOne ==
  (pc = "sized" /\ loc.in.originalWidth >= 1 /\ loc.in.originalHeight >= 1
     /\ loc.in.maxWidth >= 0 /\ loc.in.maxHeight >= 0)
    => loc.target.width >= 1 /\ loc.target.height >= 1

-----------------------------------------------------------------------------
\* Credentials and the storage clients: R2Adapter (part_001) and R2Uploader
\* (r2Uploader.ts) each hold the settings last given to them and a client,
\* null or built from the credentials of that time. adapter maps each of the
\* two objects to its fields; log holds the last upload started.

CredKeyIds  == { <<>>, <<"k", "1">>, <<"k", "2">> }
CredSecrets == { <<>>, <<"s", "1">> }
CredBuckets == { <<>>, <<"b", "1">> }

CredSettings ==
  [r2AccessKeyId : CredKeyIds, r2SecretAccessKey : CredSecrets,
   r2Bucket : CredBuckets, r2Endpoint : {<<"e">>},
   r2PublicBaseUrl : {publicBaseUrl}]

NullClient == [isNull |-> TRUE, accessKeyId |-> <<>>, secretAccessKey |-> <<>>]

\* new S3Client({... credentials ...})
NewClient(st) ==
  [isNull |-> FALSE, accessKeyId |-> st.r2AccessKeyId,
   secretAccessKey |-> st.r2SecretAccessKey]

\* !this.settings.r2AccessKeyId || !this.settings.r2SecretAccessKey
LacksCredentials(o) ==
  o.settings.r2AccessKeyId = <<>> \/ o.settings.r2SecretAccessKey = <<>>

\* R2Adapter.initialize() on the object o; threw: the constructor of the
\* client throws
initialize(o, threw) ==
  IF LacksCredentials(o)
  THEN [o EXCEPT !.client = NullClient]
  ELSE IF threw THEN [o EXCEPT !.client = NullClient]
  ELSE [o EXCEPT !.client = NewClient(o.settings)]

\* R2Uploader.initializeClient() on the object o
initializeClient(o, threw) ==
  IF LacksCredentials(o)
  THEN o
  ELSE IF threw THEN [o EXCEPT !.client = NullClient]
  ELSE [o EXCEPT !.client = NewClient(o.settings)]

\* R2Adapter.isConfigured()
AdapterIsConfigured(o) == ~o.client.isNull /\ o.settings.r2Bucket # <<>>

\* R2Uploader.isConfigured()
UploaderIsConfigured(o) ==
  /\ ~o.client.isNull
  /\ o.settings.r2AccessKeyId # <<>>
  /\ o.settings.r2SecretAccessKey # <<>>
  /\ o.settings.r2Bucket # <<>>
  /\ o.settings.r2Endpoint # <<>>
  /\ o.settings.r2PublicBaseUrl # <<>>

InitCredentials ==
  /\ \E s1 \in CredSettings, s2 \in CredSettings, t1 \in BOOLEAN,
        t2 \in BOOLEAN :
       adapter = [r2Adapter  |-> initialize([client |-> NullClient,
                                              settings |-> s1], t1),
                  r2Uploader |-> initializeClient([client |-> NullClient,
                                                   settings |-> s2], t2)]
  /\ settings = NoSettings
  /\ pc = "credentials"
  /\ log = <<>>
  /\ doc = <<>> /\ cursor = <<0, 0>>
  /\ host = [cfg |-> <<>>, file |-> NoFile]
  /\ files = <<>> /\ folders = {}
  /\ batch = <<>> /\ idx = 0 /\ loc = LocIdle /\ clock = 0 /\ remote = <<>>
  /\ sv = SvIdle /\ rw = RwIdle

CredFrame == UNCHANGED <<vaultVars, editorVars, settings, batch, idx, pc, loc,
                         clock, remote, sv, rw>>

\* R2Adapter.updateSettings(settings)
AdapterUpdateSettings ==
  /\ pc = "credentials"
  /\ \E st \in CredSettings, threw \in BOOLEAN :
       adapter' = [adapter EXCEPT !.r2Adapter =
                     initialize([@ EXCEPT !.settings = st], threw)]
  /\ UNCHANGED log
  /\ CredFrame

\* R2Uploader.updateSettings(settings)
UploaderUpdateSettings ==
  /\ pc = "credentials"
  /\ \E st \in CredSettings, threw \in BOOLEAN :
       adapter' = [adapter EXCEPT !.r2Uploader =
                     initializeClient([@ EXCEPT !.settings = st], threw)]
  /\ UNCHANGED log
  /\ CredFrame

\* an upload on the object o: without a client the failure is returned at
\* once; otherwise the transfer goes to the storage service with the
\* credentials of the client, and succeeds or fails
Started(name, o) ==
  IF o.client.isNull
  THEN {[on |-> name, contacted |-> FALSE, with |-> NullClient,
         success |-> FALSE]}
  ELSE {[on |-> name, contacted |-> TRUE, with |-> o.client, success |-> ok] :
          ok \in BOOLEAN}

\* R2Adapter.put(key, buffer, options)
AdapterPut ==
  /\ pc = "credentials"
  /\ \E r \in Started("r2Adapter", adapter.r2Adapter) : log' = <<r>>
  /\ UNCHANGED adapter
  /\ CredFrame

\* R2Uploader.upload(buffer, key, contentType)
UploaderUpload ==
  /\ pc = "credentials"
  /\ \E r \in Started("r2Uploader", adapter.r2Uploader) : log' = <<r>>
  /\ UNCHANGED adapter
  /\ CredFrame

NextCredentials ==
  \/ AdapterUpdateSettings \/ UploaderUpdateSettings
  \/ AdapterPut \/ UploaderUpload

SpecCredentials == InitCredentials /\ [][NextCredentials]_vars

\* C30: while the settings last given to a storage object lack the access
\* key id or the secret key, the object is not configured, and an upload
\* started on it returns a failure without contacting the storage service.
C30_NoClientWithoutCredentials ==
  /\ [](pc = "credentials" =>
          /\ LacksCredentials(adapter.r2Adapter)
               => ~AdapterIsConfigured(adapter.r2Adapter)
          /\ LacksCredentials(adapter.r2Uploader)
               => ~UploaderIsConfigured(adapter.r2Uploader))
  /\ [][ pc = "credentials" =>
           \A name \in {"r2Adapter", "r2Uploader"} :
             (LacksCredentials(adapter[name]) /\ adapter' = adapter
                /\ log' # <<>> /\ log'[1].on = name)
               => ~log'[1].contacted /\ ~log'[1].success ]_vars

====
